---------------------------- MODULE Spec2Model ----------------------------
(***************************************************************************)
(* A model of the command-line parsing engine of own-ts/command:           *)
(* parseCommand (src/src/parser.ts) walking an argument list against a     *)
(* tree of Command objects (src/src/command.ts), each owning a Flags       *)
(* registry (flags.ts) of typed Flag objects (flag.ts).                    *)
(*                                                                         *)
(* JavaScript strings are sequences of one-character strings, so that      *)
(* startsWith, substring and indexOf are computed and not assumed.         *)
(* JavaScript values are tagged records; null and undefined are values.    *)
(***************************************************************************)
EXTENDS Integers, Sequences, FiniteSets, TLC

VARIABLES
    parent,     \* Command.parent of every command
    children,   \* Command.children of every command: name -> command
    long_,      \* Flags.long_ of every command's registry: name -> flag
    short_,     \* Flags.short_ of every command's registry: short -> flag
    value_,     \* Flag.value_ of every registered flag
    call,       \* the locals of each parseCommand invocation
    built       \* what the last constructor or add() call was given and did

vars == <<parent, children, long_, short_, value_, call, built>>

\* What building the tree writes and parsing leaves alone.
tree == <<parent, children, long_, short_, built>>

-----------------------------------------------------------------------------
(* Bounds of the model.                                                    *)

\* The longest argument list handed to parseCommand.
MaxArgs == 3

\* The number of parseCommand invocations made one after the other on the
\* same tree in the specification SpecTwice.
MaxCalls == 2

\* The longest argument list handed to each of them.
MaxArgsTwice == 2

-----------------------------------------------------------------------------
(* JavaScript values.                                                      *)

Null == [t |-> "null"]

Undefined == [t |-> "undefined"]

NaN == [t |-> "NaN"]

Str(s) == [t |-> "string", s |-> s]

Bool(b) == [t |-> "boolean", b |-> b]

Num(n) == [t |-> "number", n |-> n]

\* A number of more than nine digits, held as its sign and its digits
\* (without leading zeros).
Wide(neg, d) == [t |-> "number", neg |-> neg, wide |-> d]

Arr(a) == [t |-> "array", a |-> a]

\* l ?? r
Coalesce(l, r) == IF l = Null \/ l = Undefined THEN r ELSE l

\* ToBoolean(v), as `if (v)` computes it.
Truthy(v) ==
    CASE v.t = "null" -> FALSE
      [] v.t = "undefined" -> FALSE
      [] v.t = "NaN" -> FALSE
      [] v.t = "boolean" -> v.b
      [] v.t = "number" -> IF "n" \in DOMAIN v THEN v.n # 0 ELSE TRUE
      [] v.t = "string" -> v.s # <<>>
      [] OTHER -> TRUE

-----------------------------------------------------------------------------
(* String.prototype operations on character sequences.                     *)

StartsWith(s, p) == Len(s) >= Len(p) /\ SubSeq(s, 1, Len(p)) = p

\* s.substring(from)
Substring(s, from) == SubSeq(s, from + 1, Len(s))

\* s.substring(from, to)
Substring2(s, from, to) ==
    SubSeq(s, from + 1, IF to < Len(s) THEN to ELSE Len(s))

\* s.indexOf(ch), -1 when absent
IndexOf(s, ch) ==
    IF \E k \in 1..Len(s) : s[k] = ch
    THEN (CHOOSE k \in 1..Len(s) : s[k] = ch /\ \A j \in 1..(k - 1) : s[j] # ch) - 1
    ELSE -1

\* getLogName, were the value to start after the "=" and not at it.
getLogNameSkipsEq(s) ==
    IF IndexOf(s, "=") < 0
    THEN [name |-> s, value |-> <<>>]
    ELSE [name |-> Substring2(s, 0, IndexOf(s, "=")),
          value |-> Substring(s, IndexOf(s, "=") + 1)]

getLogName(s) ==
    LET i == IndexOf(s, "=")
    IN  IF i < 0
        THEN [name |-> s, value |-> <<>>]
        ELSE [name |-> Substring2(s, 0, i), value |-> Substring(s, i)]

\* parseBool, were the words no and off to read as false too.
parseBoolWords(v) ==
    IF v \in {<<"f", "a", "l", "s", "e">>, <<"F", "A", "L", "S", "E">>,
              <<"F", "a", "l", "s", "e">>, <<"0">>, <<"n", "o">>,
              <<"o", "f", "f">>}
    THEN FALSE
    ELSE TRUE

parseBool(v) ==
    IF v \in {<<"f", "a", "l", "s", "e">>, <<"F", "A", "L", "S", "E">>,
              <<"F", "a", "l", "s", "e">>, <<"0">>}
    THEN FALSE
    ELSE TRUE

Digits == <<"0", "1", "2", "3", "4", "5", "6", "7", "8", "9">>

IsDigit(ch) == \E d \in 1..10 : Digits[d] = ch

DigitVal(ch) == (CHOOSE d \in 1..10 : Digits[d] = ch) - 1

RECURSIVE DigitPrefix(_, _)
\* The value of the longest prefix of s made of decimal digits, after acc.
DigitPrefix(s, acc) ==
    IF s = <<>> \/ ~IsDigit(Head(s))
    THEN acc
    ELSE DigitPrefix(Tail(s), acc * 10 + DigitVal(Head(s)))

RECURSIVE TrimStart(_)
TrimStart(s) == IF s # <<>> /\ Head(s) = " " THEN TrimStart(Tail(s)) ELSE s

RECURSIVE DigitRun(_)
\* The longest prefix of s made of decimal digits.
DigitRun(s) ==
    IF s = <<>> \/ ~IsDigit(Head(s)) THEN <<>> ELSE <<Head(s)>> \o DigitRun(Tail(s))

RECURSIVE StripZeros(_)
\* The digits d without leading zeros, one digit at least.
StripZeros(d) ==
    IF Len(d) > 1 /\ Head(d) = "0" THEN StripZeros(Tail(d)) ELSE d

\* The number a sign and a run of digits denote.
Denoted(neg, d) ==
    IF Len(d) <= 9
    THEN Num(IF neg THEN 0 - DigitPrefix(d, 0) ELSE DigitPrefix(d, 0))
    ELSE Wide(neg, d)

\* parseInt(s) with no radix, on texts without a 0x prefix: leading white
\* space is skipped, an optional sign is read, then the longest run of
\* decimal digits, whatever follows it; NaN when that run is empty.
parseInt(s) ==
    LET t == TrimStart(s)
        neg == t # <<>> /\ Head(t) = "-"
        u == IF t # <<>> /\ Head(t) \in {"-", "+"} THEN Tail(t) ELSE t
    IN  IF u = <<>> \/ ~IsDigit(Head(u))
        THEN NaN
        ELSE Denoted(neg, StripZeros(DigitRun(u)))

-----------------------------------------------------------------------------
(* The command trees the parses run against, built as the tests build      *)
(* theirs (new Command({name, prepare}), root.add(child)).                 *)
(*   app -> run -> job: app and run declare a same-named flag --name/-n;   *)
(*     job has no executable.                                              *)
(*   calc -> fail: calc declares flags of the boolean, string, int[] and   *)
(*     uint classes, some with an allow-list or a verify hook; the         *)
(*     executable of fail throws.                                          *)
(*   twin: a second command named "run", added to no parent; it declares   *)
(*     two flags without a short name.                                     *)

Commands == {"app", "run", "job", "calc", "fail", "twin"}

\* The absent command: child() returning null, a root's parent.
NoCmd == "null"

\* Command.name
CmdName ==
    [c \in Commands |->
        CASE c = "app" -> <<"a", "p", "p">>
          [] c = "run" -> <<"r", "u", "n">>
          [] c = "job" -> <<"j", "o", "b">>
          [] c = "calc" -> <<"c", "a", "l", "c">>
          [] c = "fail" -> <<"f", "a", "i", "l">>
          [] c = "twin" -> <<"r", "u", "n">>]

\* Whether Command.run holds an executable (prepare returned a callback).
run == [c \in Commands |-> c \in {"app", "run", "calc", "fail"}]

\* Whether the executable of the command throws when it is awaited.
throws == [c \in Commands |-> c = "fail"]

FlagIds ==
    {"app.name", "app.verbose", "run.name", "run.tag", "run.force",
     "job.count", "job.out",
     "calc.all", "calc.brief", "calc.conf", "calc.num", "calc.port",
     "calc.lim", "calc.mode", "twin.raw", "twin.conf"}

\* The engine's own help flag, held in no registry.
HelpFlag == "help"

\* No flag: find() returning undefined, the cleared pending slot.
NoFlag == "undefined"

\* The verify hooks the flags are configured with (FlagOptions.verify):
\* none, a hook that returns for every value, and an asynchronous hook that
\* rejects the value "b".
Hooks == {"none", "accepts", "rejectsB"}

\* The readonly attributes of each declared flag (FlagOptions).
Flag ==
    [f \in FlagIds |->
        CASE f = "app.name" ->
                [cmd |-> "app", name |-> <<"n", "a", "m", "e">>, short |-> <<"n">>,
                 type |-> "string", default |-> Null, values |-> Null, hook |-> "none"]
          [] f = "app.verbose" ->
                [cmd |-> "app", name |-> <<"v", "e", "r", "b", "o", "s", "e">>,
                 short |-> <<"v">>,
                 type |-> "bool", default |-> Null, values |-> Null, hook |-> "none"]
          [] f = "run.name" ->
                [cmd |-> "run", name |-> <<"n", "a", "m", "e">>, short |-> <<"n">>,
                 type |-> "string", default |-> Null, values |-> Null, hook |-> "none"]
          [] f = "run.tag" ->
                [cmd |-> "run", name |-> <<"t", "a", "g">>, short |-> <<"t">>,
                 type |-> "string[]", default |-> Arr(<<Str(<<"d">>)>>),
                 values |-> Null, hook |-> "none"]
          [] f = "run.force" ->
                [cmd |-> "run", name |-> <<"f", "o", "r", "c", "e">>,
                 short |-> <<"f">>,
                 type |-> "bool", default |-> Bool(FALSE), values |-> Null, hook |-> "none"]
          [] f = "job.count" ->
                [cmd |-> "job", name |-> <<"c", "o", "u", "n", "t">>,
                 short |-> <<"c">>,
                 type |-> "int", default |-> Num(0), values |-> Null, hook |-> "none"]
          [] f = "job.out" ->
                [cmd |-> "job", name |-> <<"o", "u", "t">>, short |-> <<"o">>,
                 type |-> "string", default |-> Str(<<>>), values |-> Null,
                 hook |-> "none"]
          [] f = "calc.all" ->
                [cmd |-> "calc", name |-> <<"a", "l", "l">>, short |-> <<"a">>,
                 type |-> "bool", default |-> Null, values |-> Null,
                 hook |-> "none"]
          [] f = "calc.brief" ->
                [cmd |-> "calc", name |-> <<"b", "r", "i", "e", "f">>,
                 short |-> <<"b">>,
                 type |-> "bool", default |-> Null, values |-> Null,
                 hook |-> "none"]
          [] f = "calc.conf" ->
                [cmd |-> "calc", name |-> <<"c", "o", "n", "f">>, short |-> <<"c">>,
                 type |-> "string", default |-> Str(<<"d">>), values |-> Null,
                 hook |-> "none"]
          [] f = "calc.num" ->
                [cmd |-> "calc", name |-> <<"n", "u", "m">>, short |-> <<"m">>,
                 type |-> "int[]", default |-> Arr(<<Num(7)>>), values |-> Null,
                 hook |-> "none"]
          [] f = "calc.port" ->
                [cmd |-> "calc", name |-> <<"p", "o", "r", "t">>, short |-> <<"p">>,
                 type |-> "uint", default |-> Null, values |-> Null,
                 hook |-> "none"]
          [] f = "calc.lim" ->
                [cmd |-> "calc", name |-> <<"l", "i", "m">>, short |-> <<"l">>,
                 type |-> "uint", default |-> Null, values |-> Null,
                 hook |-> "accepts"]
          [] f = "calc.mode" ->
                [cmd |-> "calc", name |-> <<"m", "o", "d", "e">>, short |-> <<"o">>,
                 type |-> "string", default |-> Null,
                 values |-> Arr(<<Str(<<"a">>), Str(<<"b">>)>>),
                 hook |-> "rejectsB"]
          [] f = "twin.raw" ->
                [cmd |-> "twin", name |-> <<"r", "a", "w">>, short |-> <<>>,
                 type |-> "string", default |-> Null, values |-> Null,
                 hook |-> "none"]
          [] f = "twin.conf" ->
                [cmd |-> "twin", name |-> <<"c", "o", "n", "f">>, short |-> <<>>,
                 type |-> "string", default |-> Null, values |-> Null,
                 hook |-> "none"]]

FlagsOf(c) == {f \in FlagIds : Flag[f].cmd = c}

\* Flag.isBool()
isBool(f) ==
    IF f = HelpFlag THEN TRUE ELSE Flag[f].type \in {"bool", "bool[]"}

\* Whether the flag is one of the array classes (FlagStrings, FlagInts, ...).
isArray(f) ==
    f # HelpFlag /\ Flag[f].type \in {"string[]", "int[]", "uint[]", "bool[]"}

\* The tree after construction: every add() of the build has run.
BuiltParent == [c \in Commands |->
    CASE c = "app" -> NoCmd [] c = "run" -> "app" [] c = "job" -> "run"
      [] c = "calc" -> NoCmd [] c = "fail" -> "calc" [] c = "twin" -> NoCmd]

BuiltChildren == [c \in Commands |->
    CASE c = "app" -> (CmdName["run"] :> "run")
      [] c = "run" -> (CmdName["job"] :> "job")
      [] c = "job" -> <<>>
      [] c = "calc" -> (CmdName["fail"] :> "fail")
      [] c = "fail" -> <<>>
      [] c = "twin" -> <<>>]

\* Flags.add: every flag under its long name.
BuiltLong == [c \in Commands |->
    [n \in {Flag[f].name : f \in FlagsOf(c)} |->
        CHOOSE f \in FlagsOf(c) : Flag[f].name = n]]

\* Flags.add: every flag with a non-empty short under its short name.
BuiltShort == [c \in Commands |->
    [n \in {Flag[f].short : f \in {g \in FlagsOf(c) : Flag[g].short # <<>>}} |->
        CHOOSE f \in FlagsOf(c) : Flag[f].short = n]]

-----------------------------------------------------------------------------
(* Command and Flags lookups.                                              *)

\* Command.child(name)
child(c, name) ==
    IF name \in DOMAIN children[c] THEN children[c][name] ELSE NoCmd

\* Command.hasChildren()
hasChildren(c) == DOMAIN children[c] # {}

RECURSIVE findInherited(_, _, _)
\* find, were a registry to fall back to the registries of its command's
\* ancestors.
findInherited(c, name, short) ==
    IF name \in DOMAIN (IF short THEN short_[c] ELSE long_[c])
    THEN (IF short THEN short_[c] ELSE long_[c])[name]
    ELSE IF parent[c] # NoCmd
    THEN findInherited(parent[c], name, short)
    ELSE NoFlag

\* Flags.find(name, short)
find(c, name, short) ==
    IF short
    THEN IF name \in DOMAIN short_[c] THEN short_[c][name] ELSE NoFlag
    ELSE IF name \in DOMAIN long_[c] THEN long_[c][name] ELSE NoFlag

\* reset, were it to set every flag of every registry back to null.
resetEverywhere(c, V) == [f \in FlagIds |-> Null]

\* Flags.reset(): value_ of every flag of the registry back to null.
reset(c, V) ==
    [f \in FlagIds |->
        IF \E n \in DOMAIN long_[c] : long_[c][n] = f THEN Null ELSE V[f]]

\* The getter, were it written with || in place of ??.
valueOr(f, V) ==
    IF Truthy(V[f]) THEN V[f]
    ELSE IF Truthy(Flag[f].default) THEN Flag[f].default
    ELSE Null

\* The getter Flag.value: value_ ?? default ?? null.
value(f, V) == Coalesce(V[f], Coalesce(Flag[f].default, Null))

-----------------------------------------------------------------------------
(* The suggestions. A threshold levenshteinDistance is undefined, NaN or a *)
(* number [t |-> "number", half |-> h] given as its count of halves (h = 1 *)
(* is 0.5, h = 4 is 2), and the local found holds halves as well.          *)

\* getLevenshteinDistance(a, b), part_007 lines 32-61: matrix[i][j] is filled
\* from matrix[i - 1][j - 1], matrix[i][j - 1] and matrix[i - 1][j].
getLevenshteinDistance(a, b) ==
    LET m == Len(a)
        n == Len(b)
        matrix[i \in 0..n, j \in 0..m] ==
            IF j = 0 THEN i
            ELSE IF i = 0 THEN j
            ELSE IF b[i] = a[j] THEN matrix[i - 1, j - 1]
            ELSE LET x == matrix[i - 1, j - 1] + 1
                     y == matrix[i, j - 1] + 1
                     z == matrix[i - 1, j] + 1
                 IN  IF x <= y /\ x <= z THEN x ELSE IF y <= z THEN y ELSE z
    IN  matrix[n, m]

\* guessString(input, values, levenshteinDistance), part_003 lines 235-253:
\* values is null or an array of strings; gives a string or null.
guessString(input, values, d) ==
    LET RECURSIVE loop(_, _, _)
        loop(k, found, v) ==
            IF k > Len(values.a)
            THEN v
            ELSE IF 2 * getLevenshteinDistance(input, values.a[k].s) <= found
            THEN loop(k + 1, 2 * getLevenshteinDistance(input, values.a[k].s),
                      values.a[k])
            ELSE loop(k + 1, found, v)
    IN  IF values # Null /\ (IF d.t = "number" THEN d.half ELSE 4) > 0
        THEN loop(1, IF d.t = "number" THEN d.half ELSE 4, Null)
        ELSE Null

\* flagsGuess, were the first long name within the threshold returned.
flagsGuessFirstWithin(c, name, d) ==
    LET keys == SelectSeq(<<"app.name", "app.verbose", "run.name", "run.tag",
                            "run.force", "job.count", "job.out", "calc.all",
                            "calc.brief", "calc.conf", "calc.num", "calc.port",
                            "calc.lim", "calc.mode", "twin.raw", "twin.conf">>,
                          LAMBDA f : \E n \in DOMAIN long_[c] : long_[c][n] = f)
        RECURSIVE loop(_, _, _)
        loop(k, found, v) ==
            IF k > Len(keys)
            THEN v
            ELSE IF 2 * getLevenshteinDistance(name, Flag[keys[k]].name) <= found
            THEN keys[k]
            ELSE loop(k + 1, found, v)
    IN  IF long_[c] # <<>> /\ (IF d.t = "number" THEN d.half ELSE 4) > 0
        THEN loop(1, IF d.t = "number" THEN d.half ELSE 4, NoFlag)
        ELSE NoFlag

\* Flags.guess(name, levenshteinDistance) on the registry of c, part_006
\* lines 509-526: the Map long_ is gone through in the order the flags were
\* added, that of their declaration. Gives a flag, or NoFlag for null.
flagsGuess(c, name, d) ==
    LET keys == SelectSeq(<<"app.name", "app.verbose", "run.name", "run.tag",
                            "run.force", "job.count", "job.out", "calc.all",
                            "calc.brief", "calc.conf", "calc.num", "calc.port",
                            "calc.lim", "calc.mode", "twin.raw", "twin.conf">>,
                          LAMBDA f : \E n \in DOMAIN long_[c] : long_[c][n] = f)
        RECURSIVE loop(_, _, _)
        loop(k, found, v) ==
            IF k > Len(keys)
            THEN v
            ELSE IF 2 * getLevenshteinDistance(name, Flag[keys[k]].name) <= found
            THEN loop(k + 1, 2 * getLevenshteinDistance(name, Flag[keys[k]].name),
                      keys[k])
            ELSE loop(k + 1, found, v)
    IN  IF long_[c] # <<>> /\ (IF d.t = "number" THEN d.half ELSE 4) > 0
        THEN loop(1, IF d.t = "number" THEN d.half ELSE 4, NoFlag)
        ELSE NoFlag

\* Command.guess(name, levenshteinDistance) on command c, command.ts lines
\* 285-297: the Map children is gone through in the order the children
\* were added. Gives a command, or NoCmd for null.
commandGuess(c, name, d) ==
    LET keys == SelectSeq(<<"app", "run", "job", "calc", "fail", "twin">>,
                          LAMBDA x : \E n \in DOMAIN children[c] : children[c][n] = x)
        RECURSIVE loop(_, _, _)
        loop(k, found, v) ==
            IF k > Len(keys)
            THEN v
            ELSE IF 2 * getLevenshteinDistance(name, CmdName[keys[k]]) <= found
            THEN loop(k + 1, 2 * getLevenshteinDistance(name, CmdName[keys[k]]),
                      keys[k])
            ELSE loop(k + 1, found, v)
    IN  loop(1, IF d.t = "number" THEN d.half ELSE 4, NoCmd)

-----------------------------------------------------------------------------
(* Flag.parse of each flag class: convert, verify, then assign or push.    *)

\* The conversion each class applies to the text before verify.
Convert(f, s) ==
    CASE Flag[f].type \in {"string", "string[]"} -> Str(s)
      [] Flag[f].type \in {"bool", "bool[]"} -> Bool(parseBool(s))
      [] Flag[f].type \in {"int", "int[]", "uint", "uint[]"} -> parseInt(s)

\* Flag._verifyValues: with an allow-list, the candidate must equal an entry
\* (by JSON text, which tells the values of the model's allow-lists apart).
verifyValues(f, v) ==
    IF Flag[f].values = Null
    THEN TRUE
    ELSE \E k \in 1..Len(Flag[f].values.a) : Flag[f].values.a[k] = v

\* Number.MAX_SAFE_INTEGER, 2^53 - 1, as its digits.
MAX_SAFE_INTEGER ==
    <<"9", "0", "0", "7", "1", "9", "9", "2", "5", "4", "7", "4", "0", "9", "9", "1">>

\* Whether the number of digits a is at most the number of digits b.
DigitsLeq(a, b) ==
    \/ Len(a) < Len(b)
    \/ /\ Len(a) = Len(b)
       /\ \/ a = b
          \/ \E k \in 1..Len(a) :
                /\ DigitVal(a[k]) < DigitVal(b[k])
                /\ \A j \in 1..(k - 1) : a[j] = b[j]

\* Number.isSafeInteger(v): an integer of magnitude at most 2^53 - 1. The
\* double nearest to a wider integer is 2^53 at least.
isSafeInteger(v) ==
    /\ v.t = "number"
    /\ "n" \in DOMAIN v \/ DigitsLeq(v.wide, MAX_SAFE_INTEGER)

\* v < 0 for a number v
isNegative(v) == IF "n" \in DOMAIN v THEN v.n < 0 ELSE v.neg

\* The configured hook verify_(v), awaited: "" when it returns or resolves,
\* the message of what it throws or rejects with otherwise.
hook(f, v) ==
    IF Flag[f].hook = "rejectsB" /\ v = Str(<<"b">>) THEN "rejected by hook" ELSE ""

\* verify, were it as the remark on FlagOptions.values has it: a candidate
\* that matches the allow-list is valid without the hook being called, and
\* the hook is called for one that does not match.
verifyAsRemarked(f, v) ==
    IF Flag[f].values # Null /\ verifyValues(f, v)
    THEN [message |-> "", hooked |-> FALSE]
    ELSE IF Flag[f].hook # "none"
    THEN [message |-> hook(f, v), hooked |-> TRUE]
    ELSE [message |->
            IF Flag[f].values # Null
            THEN "value is not in the list of available values"
            ELSE CASE Flag[f].type \in {"int", "int[]"} ->
                          IF isSafeInteger(v) THEN "" ELSE "is not safe integer"
                   [] Flag[f].type \in {"uint", "uint[]"} ->
                          IF isSafeInteger(v) /\ ~isNegative(v)
                          THEN ""
                          ELSE "is not safe unsigned integer"
                   [] OTHER -> "",
          hooked |-> FALSE]

\* verify of each class: the allow-list; then the hook if one is configured;
\* the int and uint classes check the number themselves only when no hook
\* is. message is "" when the candidate passes and the thrown message
\* otherwise; hooked tells whether the hook was invoked.
verify(f, v) ==
    IF ~verifyValues(f, v)
    THEN [message |-> "value is not in the list of available values",
          hooked |-> FALSE]
    ELSE IF Flag[f].hook # "none"
    THEN [message |-> hook(f, v), hooked |-> TRUE]
    ELSE [message |->
            CASE Flag[f].type \in {"int", "int[]"} ->
                      IF isSafeInteger(v) THEN "" ELSE "is not safe integer"
               [] Flag[f].type \in {"uint", "uint[]"} ->
                      IF isSafeInteger(v) /\ ~isNegative(v)
                      THEN ""
                      ELSE "is not safe unsigned integer"
               [] OTHER -> "",
          hooked |-> FALSE]

\* store, were the value kept per flag name and not per flag object: every
\* flag of that long name receives it.
storeByName(f, V, val) ==
    IF verify(f, val).message # ""
    THEN [ok |-> FALSE, V |-> V, val |-> val, message |-> verify(f, val).message,
          hooked |-> verify(f, val).hooked]
    ELSE [ok |-> TRUE,
          V |-> [g \in FlagIds |->
                    IF Flag[g].name = Flag[f].name
                    THEN IF isArray(g)
                         THEN Arr(Append(IF V[g] = Null THEN <<>> ELSE V[g].a, val))
                         ELSE val
                    ELSE V[g]],
          val |-> val,
          message |-> "",
          hooked |-> verify(f, val).hooked]

\* store, were the array of an array flag to start from the elements of
\* its default.
storeOntoDefault(f, V, val) ==
    IF verify(f, val).message # ""
    THEN [ok |-> FALSE, V |-> V, val |-> val, message |-> verify(f, val).message,
          hooked |-> verify(f, val).hooked]
    ELSE [ok |-> TRUE,
          V |-> [V EXCEPT ![f] =
                    IF isArray(f)
                    THEN Arr(Append(IF V[f] # Null THEN V[f].a
                                    ELSE IF Flag[f].default # Null
                                    THEN Flag[f].default.a
                                    ELSE <<>>,
                                    val))
                    ELSE val],
          val |-> val,
          message |-> "",
          hooked |-> verify(f, val).hooked]

\* The tail of Flag.parse once the text is converted to val: verify, then
\* the scalar classes assign value_, the array classes create the array on
\* the first occurrence and push. A throw leaves V as it was.
store(f, V, val) ==
    IF verify(f, val).message # ""
    THEN [ok |-> FALSE, V |-> V, val |-> val, message |-> verify(f, val).message,
          hooked |-> verify(f, val).hooked]
    ELSE [ok |-> TRUE,
          V |-> [V EXCEPT ![f] =
                    IF isArray(f)
                    THEN Arr(Append(IF V[f] = Null THEN <<>> ELSE V[f].a, val))
                    ELSE val],
          val |-> val,
          message |-> "",
          hooked |-> verify(f, val).hooked]

\* Flag.parse(s) on the registry state V.
parse(f, s, V) == store(f, V, Convert(f, s))

-----------------------------------------------------------------------------
(* The locals of one parseCommand invocation, as a record L.                *)
(*   args, mode, allowUnknowFlag, allowUnknowCommand: the parameters        *)
(*   cmd, runner, runners, flag, flagName, help: the locals of that name    *)
(*     (help is the value_ of the local FlagBoolean; strs is runner.args,   *)
(*     the same array object; runners is <<>> where the code holds          *)
(*     undefined, a tracked list never being empty)                         *)
(*   i: the position of the for-of loop; k: that of the loop of mode all    *)
(*   pc: idle, loop, runAll, runLast, returned or thrown                    *)
(*   userdata: the local of that name, opts.userdata: the caller's object,  *)
(*     told apart by the invocation it was given to                         *)
(*   levenshteinDistance: opts?.levenshteinDistance, undefined when the     *)
(*     options hold none                                                    *)
(*   result, error: what the invocation returned or threw                   *)
(*   n: the count of invocations made so far                                *)
(* and records of what happened, read by the properties only:              *)
(*   ran: the executables invoked, each with its arguments and the value    *)
(*        every flag read as at that moment                                 *)
(*   how: how each token read so far was consumed ("flag", "value",         *)
(*        "child" or "arg") and the command that was current when read      *)
(*   given: per flag, the converted values parsed in this invocation        *)
(*   before: value_ of every flag when the invocation was entered           *)
(*   hooks: the verify hooks invoked, each with its flag and candidate      *)

Slots == {1}

Modes == {"undefined", "all", "last", "runner"}

NoResult == [none |-> TRUE]

NoError == [none |-> TRUE]

IdleCall ==
    [pc |-> "idle", n |-> 0, args |-> <<>>, mode |-> "undefined",
     allowUnknowFlag |-> FALSE, allowUnknowCommand |-> FALSE,
     i |-> 1, k |-> 1, cmd |-> NoCmd,
     runner |-> [cmd |-> NoCmd, args |-> <<>>, result |-> Undefined],
     runners |-> <<>>, flag |-> NoFlag, flagName |-> <<>>, help |-> Null,
     result |-> NoResult, error |-> NoError,
     userdata |-> Undefined, levenshteinDistance |-> Undefined,
     ran |-> <<>>, how |-> <<>>, given |-> [f \in FlagIds |-> <<>>],
     before |-> [f \in FlagIds |-> Null], hooks |-> <<>>]

\* The local strs: the array runner.args refers to.
strs(L) == L.runner.args

\* Whether the local runners holds a list (mode all or runner).
tracked(L) == L.mode \in {"all", "runner"}

\* help.value of the local help flag, which has no default.
helpValue(L) == Coalesce(L.help, Null)

\* `continue`: on to the next token, the one just read consumed as `as`.
Continue(L, as) ==
    [L EXCEPT !.i = @ + 1, !.how = Append(@, [as |-> as, cmd |-> L.cmd])]

\* throwFlag(cmd, message): a ParseCommandError carrying cmd's help text.
\* mean, the name to suggest, is passed by the throw for an unknown long
\* flag alone.
throwFlag(L, message, name, arg, cause) ==
    [L EXCEPT !.pc = "thrown",
              !.error = [by |-> "throwFlag", cmd |-> L.cmd, message |-> message,
                         name |-> name, arg |-> arg, cause |-> cause,
                         mean |-> Undefined]]

\* throwCommand(cmd, arg, cmd.guess(arg, opts?.levenshteinDistance)?.name)
throwCommand(L, arg) ==
    [L EXCEPT !.pc = "thrown",
              !.error = [by |-> "throwCommand", cmd |-> L.cmd,
                         message |-> "unknown command", name |-> arg,
                         arg |-> arg, cause |-> "",
                         mean |->
                            IF commandGuess(L.cmd, arg, L.levenshteinDistance) = NoCmd
                            THEN Undefined
                            ELSE Str(CmdName[commandGuess(L.cmd, arg,
                                                          L.levenshteinDistance)])]]

\* push, were `strs = []` of line 265 missing: every Runner made so far
\* would hold the one array the token is pushed to.
pushShared(L, arg) ==
    [L EXCEPT !.runner.args = Append(@, arg),
              !.runners = IF tracked(L)
                          THEN [j \in DOMAIN @ |->
                                    [@[j] EXCEPT !.args = Append(@, arg)]]
                          ELSE @]

\* strs.push(arg): runner.args is strs, and the last tracked Runner is runner.
push(L, arg) ==
    [L EXCEPT !.runner.args = Append(@, arg),
              !.runners = IF tracked(L)
                          THEN [@ EXCEPT ![Len(@)].args = Append(@, arg)]
                          ELSE @]

\* The locals after flag.parse gave r: a value parsed is recorded in given,
\* a hook invoked in hooks.
parsed(L, r) ==
    [L |-> [L EXCEPT !.given[L.flag] = IF r.ok THEN Append(@, r.val) ELSE @,
                     !.hooks = IF r.hooked
                               THEN Append(@, [flag |-> L.flag, val |-> r.val])
                               ELSE @],
     V |-> r.V,
     message |-> r.message]

\* `await flag.parse(text)` for the local flag, the help flag included.
\* Gives the locals and the registry state after it, and the message thrown
\* ("" when none).
parseInto(L, V, text) ==
    IF L.flag = HelpFlag
    THEN [L |-> [L EXCEPT !.help = Bool(parseBool(text))], V |-> V, message |-> ""]
    ELSE parsed(L, parse(L.flag, text, V))

\* cleared, were flag.parse(v) awaited outside any try/catch: what it threw
\* reaches the caller as it is.
clearedUncaught(L, v, arg, r) ==
    IF r.message = ""
    THEN [L |-> [r.L EXCEPT !.flag = NoFlag], V |-> r.V]
    ELSE [L |-> [r.L EXCEPT !.pc = "thrown",
                            !.error = [by |-> "parse", cmd |-> L.cmd,
                                       message |-> r.message, name |-> L.flagName,
                                       arg |-> arg, cause |-> ""]],
          V |-> r.V]

\* What follows flag.parse(v) in its try/catch: flag = undefined, or the
\* catch clause throwing the flag error.
cleared(L, v, arg, r) ==
    IF r.message = ""
    THEN [L |-> [r.L EXCEPT !.flag = NoFlag], V |-> r.V]
    ELSE [L |-> throwFlag(r.L, "invalid argument", L.flagName, arg, r.message),
          V |-> r.V]

\* The try/catch around flag.parse(v) that ends with flag = undefined.
parseAndClear(L, V, v, arg) == cleared(L, v, arg, parseInto(L, V, v))

\* `continue` after a handler that may have thrown.
continued(r, as) ==
    IF r.L.pc = "thrown" THEN r ELSE [L |-> Continue(r.L, as), V |-> r.V]

\* resolve, were found.flags.reset() left out.
resolveNoReset(L, V, arg) ==
    IF strs(L) = <<>> /\ hasChildren(L.cmd)
    THEN IF child(L.cmd, arg) # NoCmd
         THEN [L |-> [Continue(L, "child") EXCEPT
                        !.runner = [cmd |-> child(L.cmd, arg), args |-> <<>>,
                                    result |-> Undefined],
                        !.runners = IF tracked(L)
                                    THEN Append(@, [cmd |-> child(L.cmd, arg),
                                                    args |-> <<>>,
                                                    result |-> Undefined])
                                    ELSE @,
                        !.cmd = child(L.cmd, arg)],
               V |-> V]
         ELSE IF ~L.allowUnknowCommand
         THEN [L |-> throwCommand(L, arg), V |-> V]
         ELSE [L |-> Continue(push(L, arg), "arg"), V |-> V]
    ELSE [L |-> Continue(push(L, arg), "arg"), V |-> V]

\* resolve, were runners.push(runner) left out.
resolveNoTrack(L, V, arg) ==
    IF strs(L) = <<>> /\ hasChildren(L.cmd)
    THEN IF child(L.cmd, arg) # NoCmd
         THEN [L |-> [Continue(L, "child") EXCEPT
                        !.runner = [cmd |-> child(L.cmd, arg), args |-> <<>>,
                                    result |-> Undefined],
                        !.cmd = child(L.cmd, arg)],
               V |-> reset(child(L.cmd, arg), V)]
         ELSE IF ~L.allowUnknowCommand
         THEN [L |-> throwCommand(L, arg), V |-> V]
         ELSE [L |-> Continue(push(L, arg), "arg"), V |-> V]
    ELSE [L |-> Continue(push(L, arg), "arg"), V |-> V]

\* resolve, were a token tried as the name of a child whatever the
\* positional arguments recorded so far.
resolveAnywhere(L, V, arg) ==
    IF hasChildren(L.cmd)
    THEN LET found == child(L.cmd, arg)
         IN  IF found # NoCmd
             THEN LET fresh == [cmd |-> found, args |-> <<>>, result |-> Undefined]
                  IN  [L |-> [Continue(L, "child") EXCEPT
                                  !.runner = fresh,
                                  !.runners = IF tracked(L)
                                              THEN Append(@, fresh)
                                              ELSE @,
                                  !.cmd = found],
                       V |-> reset(found, V)]
             ELSE IF ~L.allowUnknowCommand /\ strs(L) = <<>>
             THEN [L |-> throwCommand(L, arg), V |-> V]
             ELSE [L |-> Continue(push(L, arg), "arg"), V |-> V]
    ELSE [L |-> Continue(push(L, arg), "arg"), V |-> V]

\* resolve, were a word that names no child taken as a positional argument
\* whatever allowUnknowCommand is.
resolveNeverThrows(L, V, arg) ==
    IF strs(L) = <<>> /\ hasChildren(L.cmd) /\ child(L.cmd, arg) # NoCmd
    THEN [L |-> [Continue(L, "child") EXCEPT
                    !.runner = [cmd |-> child(L.cmd, arg), args |-> <<>>,
                                result |-> Undefined],
                    !.runners = IF tracked(L)
                                THEN Append(@, [cmd |-> child(L.cmd, arg),
                                                args |-> <<>>,
                                                result |-> Undefined])
                                ELSE @,
                    !.cmd = child(L.cmd, arg)],
          V |-> reset(child(L.cmd, arg), V)]
    ELSE [L |-> Continue(push(L, arg), "arg"), V |-> V]

\* Lines 262-280: the token is a child's name, an unknown command or a
\* positional argument.
resolve(L, V, arg) ==
    IF strs(L) = <<>> /\ hasChildren(L.cmd)
    THEN LET found == child(L.cmd, arg)
         IN  IF found # NoCmd
             THEN LET fresh == [cmd |-> found, args |-> <<>>, result |-> Undefined]
                  IN  [L |-> [Continue(L, "child") EXCEPT
                                  !.runner = fresh,
                                  !.runners = IF tracked(L)
                                              THEN Append(@, fresh)
                                              ELSE @,
                                  !.cmd = found],
                       V |-> reset(found, V)]
             ELSE IF ~L.allowUnknowCommand
             THEN [L |-> throwCommand(L, arg), V |-> V]
             ELSE [L |-> Continue(push(L, arg), "arg"), V |-> V]
    ELSE [L |-> Continue(push(L, arg), "arg"), V |-> V]

\* Flags.find in the current command's registry, else the help flag when
\* the name is its name: cmd.flags.find(name, short) ?? (name === 'help' ...)
lookup(L, name, short) ==
    LET found == find(L.cmd, name, short)
    IN  IF found # NoFlag
        THEN found
        ELSE IF name = (IF short THEN <<"h">> ELSE <<"h", "e", "l", "p">>)
        THEN HelpFlag
        ELSE NoFlag

\* longFound, were a boolean flag without attached value to wait for the
\* next token as the other flags do.
longFoundBoolWaits(L, V, arg, nv) ==
    IF L.flag # NoFlag
    THEN IF StartsWith(nv.value, <<"=">>)
         THEN continued(parseAndClear(L, V, Substring(nv.value, 1), arg), "flag")
         ELSE [L |-> Continue(L, "flag"), V |-> V]
    ELSE IF ~L.allowUnknowFlag
    THEN [L |-> [throwFlag(L, "Unknow flag", nv.name, arg, "") EXCEPT
                    !.error.mean =
                        IF flagsGuess(L.cmd, nv.name, L.levenshteinDistance) = NoFlag
                        THEN Undefined
                        ELSE Str(Flag[flagsGuess(L.cmd, nv.name,
                                                 L.levenshteinDistance)].name)],
          V |-> V]
    ELSE resolve(L, V, arg)

\* longFound, were "=" followed by nothing to count as no attached value.
longFoundEmptyWaits(L, V, arg, nv) ==
    IF L.flag # NoFlag
    THEN IF (StartsWith(nv.value, <<"=">>) /\ Len(nv.value) > 1) \/ isBool(L.flag)
         THEN continued(
                parseAndClear(L, V,
                    IF StartsWith(nv.value, <<"=">>)
                    THEN Substring(nv.value, 1)
                    ELSE <<"1">>,
                    arg),
                "flag")
         ELSE [L |-> Continue(L, "flag"), V |-> V]
    ELSE IF ~L.allowUnknowFlag
    THEN [L |-> [throwFlag(L, "Unknow flag", nv.name, arg, "") EXCEPT
                    !.error.mean =
                        IF flagsGuess(L.cmd, nv.name, L.levenshteinDistance) = NoFlag
                        THEN Undefined
                        ELSE Str(Flag[flagsGuess(L.cmd, nv.name,
                                                 L.levenshteinDistance)].name)],
          V |-> V]
    ELSE resolve(L, V, arg)

\* Lines 182-207, with the name and value of the token split and the flag
\* looked up: L is the locals after flagName and flag are assigned.
longFound(L, V, arg, nv) ==
    IF L.flag # NoFlag
    THEN IF StartsWith(nv.value, <<"=">>) \/ isBool(L.flag)
         THEN continued(
                parseAndClear(L, V,
                    IF StartsWith(nv.value, <<"=">>)
                    THEN Substring(nv.value, 1)
                    ELSE <<"1">>,
                    arg),
                "flag")
         ELSE [L |-> Continue(L, "flag"), V |-> V]
    ELSE IF ~L.allowUnknowFlag
    THEN [L |-> [throwFlag(L, "Unknow flag", nv.name, arg, "") EXCEPT
                    !.error.mean =
                        IF flagsGuess(L.cmd, nv.name, L.levenshteinDistance) = NoFlag
                        THEN Undefined
                        ELSE Str(Flag[flagsGuess(L.cmd, nv.name,
                                                 L.levenshteinDistance)].name)],
          V |-> V]
    ELSE resolve(L, V, arg)

\* Lines 179-181: the name and the attached value of a long flag token.
longNamed(L, V, arg, nv) ==
    longFound([L EXCEPT !.flagName = <<"-", "-">> \o nv.name,
                        !.flag = lookup(L, nv.name, FALSE)],
              V, arg, nv)

\* Lines 178-207: a token starting with "--".
longFlag(L, V, arg) == longNamed(L, V, arg, getLogName(Substring(arg, 2)))

RECURSIVE chain(_, _, _, _)

\* chainNext, were the chain to go on after the help flag.
chainNextPastHelp(L, s, arg, r) ==
    IF r.message # ""
    THEN [L |-> throwFlag(r.L, "invalid argument", L.flagName, arg, r.message),
          V |-> r.V]
    ELSE IF lookup(L, Substring2(s, 0, 1), TRUE) = NoFlag
    THEN [L |-> throwFlag([r.L EXCEPT !.flagName = <<"-">> \o Substring2(s, 0, 1),
                                      !.flag = NoFlag],
                          "Unknow shorthand flag", Substring2(s, 0, 1), arg, ""),
          V |-> r.V]
    ELSE chain([r.L EXCEPT !.flagName = <<"-">> \o Substring2(s, 0, 1),
                           !.flag = lookup(L, Substring2(s, 0, 1), TRUE)],
               r.V, Substring(s, 1), arg)

\* chainNext, were a character that names no flag to make the token a
\* positional argument where allowUnknowFlag is set.
chainNextAllowsUnknown(L, s, arg, r) ==
    IF r.message # ""
    THEN [L |-> throwFlag(r.L, "invalid argument", L.flagName, arg, r.message),
          V |-> r.V]
    ELSE IF L.flag = HelpFlag
    THEN [L |-> r.L, V |-> r.V]
    ELSE IF lookup(L, Substring2(s, 0, 1), TRUE) = NoFlag
    THEN IF L.allowUnknowFlag
         THEN [L |-> push([r.L EXCEPT !.flagName = <<"-">> \o Substring2(s, 0, 1),
                                      !.flag = NoFlag], arg),
               V |-> r.V]
         ELSE [L |-> throwFlag([r.L EXCEPT !.flagName = <<"-">> \o Substring2(s, 0, 1),
                                           !.flag = NoFlag],
                               "Unknow shorthand flag", Substring2(s, 0, 1), arg, ""),
               V |-> r.V]
    ELSE chain([r.L EXCEPT !.flagName = <<"-">> \o Substring2(s, 0, 1),
                           !.flag = lookup(L, Substring2(s, 0, 1), TRUE)],
               r.V, Substring(s, 1), arg)

\* Lines 244-254: after a boolean flag of the chain parsed "1" (r): the help
\* flag ends the chain, else the next character of s names the next flag.
chainNext(L, s, arg, r) ==
    IF r.message # ""
    THEN [L |-> throwFlag(r.L, "invalid argument", L.flagName, arg, r.message),
          V |-> r.V]
    ELSE IF L.flag = HelpFlag
    THEN [L |-> r.L, V |-> r.V]
    ELSE IF lookup(L, Substring2(s, 0, 1), TRUE) = NoFlag
    THEN [L |-> throwFlag([r.L EXCEPT !.flagName = <<"-">> \o Substring2(s, 0, 1),
                                      !.flag = NoFlag],
                          "Unknow shorthand flag", Substring2(s, 0, 1), arg, ""),
          V |-> r.V]
    ELSE chain([r.L EXCEPT !.flagName = <<"-">> \o Substring2(s, 0, 1),
                           !.flag = lookup(L, Substring2(s, 0, 1), TRUE)],
               r.V, Substring(s, 1), arg)

\* chain, were a shorthand token to name one flag only: what follows the
\* first character is that flag's value, for a boolean flag too.
chainOneFlag(L, V, s, arg) ==
    IF s = <<>> /\ ~isBool(L.flag)
    THEN [L |-> L, V |-> V]
    ELSE parseAndClear(L, V,
            IF s = <<>> THEN <<"1">>
            ELSE IF StartsWith(s, <<"=">>) THEN Substring(s, 1)
            ELSE s,
            arg)

\* Lines 214-255: the while (true) loop over the rest s of a shorthand
\* token, entered with the local flag resolved.
chain(L, V, s, arg) ==
    IF s = <<>> /\ ~isBool(L.flag)
    THEN [L |-> L, V |-> V]
    ELSE IF s = <<>> \/ StartsWith(s, <<"=">>) \/ ~isBool(L.flag)
    THEN parseAndClear(L, V,
            IF s = <<>> THEN <<"1">>
            ELSE IF StartsWith(s, <<"=">>) THEN Substring(s, 1)
            ELSE s,
            arg)
    ELSE chainNext(L, s, arg, parseInto(L, V, <<"1">>))

\* Lines 212-259, with the first character looked up: L is the locals after
\* flagName and flag are assigned.
shortFound(L, V, name, arg) ==
    IF L.flag # NoFlag
    THEN continued(chain(L, V, Substring(arg, 2), arg), "flag")
    ELSE IF ~L.allowUnknowFlag
    THEN [L |-> throwFlag(L, "Unknow shorthand flag", name, arg, ""), V |-> V]
    ELSE resolve(L, V, arg)

\* Lines 208-259: a token starting with "-" that is neither "-" nor "--...".
shortFlag(L, V, arg) ==
    shortFound([L EXCEPT !.flagName = <<"-">> \o Substring2(arg, 1, 2),
                         !.flag = lookup(L, Substring2(arg, 1, 2), TRUE)],
               V, Substring2(arg, 1, 2), arg)

\* An executable: what the callbacks of the tests do, reading their flags.
\* It records the arguments it was passed (args, userdata and cmd, the
\* command whose executable it is) and what every flag reads as.
invoke(L, V, r) ==
    [L EXCEPT !.ran = Append(@, [cmd |-> r.cmd, args |-> r.args,
                                 userdata |-> L.userdata,
                                 seen |-> [f \in FlagIds |-> value(f, V)]])]

\* What the executable of command c returns.
Ret(c) == Str(CmdName[c])

\* The executable of Runner r was awaited and threw: nothing in
\* parseCommand catches it, the caller receives what was thrown.
threw(L, V, r) ==
    [invoke(L, V, r) EXCEPT
        !.pc = "thrown",
        !.error = [by |-> "run", cmd |-> r.cmd, message |-> "thrown by run",
                   name |-> <<>>, arg |-> <<>>, cause |-> ""]]

-----------------------------------------------------------------------------
(* The argument lists and options the invocations are given.               *)

\* The argument tokens the invocations are given, each under a name that
\* spells it: Token.name_e is "--name=", Token.n80 is "80".
Token ==
    [dash |-> <<"-">>,
     h |-> <<"-", "h">>,
     help |-> <<"-", "-", "h", "e", "l", "p">>,
     name |-> <<"-", "-", "n", "a", "m", "e">>,
     n |-> <<"-", "n">>,
     v |-> <<"-", "v">>,
     vn |-> <<"-", "v", "n">>,
     tag_a |-> <<"-", "-", "t", "a", "g", "=", "a">>,
     nope |-> <<"-", "-", "n", "o", "p", "e">>,
     z |-> <<"-", "z">>,
     run |-> <<"r", "u", "n">>,
     job |-> <<"j", "o", "b">>,
     a |-> <<"a">>,
     v_0 |-> <<"-", "v", "=", "0">>,
     name_e |-> <<"-", "-", "n", "a", "m", "e", "=">>,
     count_0 |-> <<"-", "-", "c", "o", "u", "n", "t", "=", "0">>,
     force |-> <<"-", "-", "f", "o", "r", "c", "e">>,
     abcab |-> <<"-", "a", "b", "c", "a", "b">>,
     ab |-> <<"-", "a", "b">>,
     sa |-> <<"-", "a">>,
     all |-> <<"-", "-", "a", "l", "l">>,
     false |-> <<"f", "a", "l", "s", "e">>,
     n0 |-> <<"0">>,
     num_1 |-> <<"-", "-", "n", "u", "m", "=", "1">>,
     m2 |-> <<"-", "m", "2">>,
     m |-> <<"-", "m">>,
     num |-> <<"-", "-", "n", "u", "m">>,
     n3 |-> <<"3">>,
     p_neg |-> <<"-", "p", "-", "1">>,
     px |-> <<"-", "p", "x">>,
     p_max |-> <<"-", "p">> \o
              <<"9", "0", "0", "7", "1", "9", "9", "2", "5", "4", "7", "4", "0", "9", "9", "1">>,
     p_big |-> <<"-", "p">> \o
              <<"9", "0", "0", "7", "1", "9", "9", "2", "5", "4", "7", "4", "0", "9", "9", "3">>,
     p12abc |-> <<"-", "p", "1", "2", "a", "b", "c">>,
     l_neg |-> <<"-", "l", "-", "1">>,
     lx |-> <<"-", "l", "x">>,
     mx |-> <<"-", "m", "x">>,
     m37 |-> <<"-", "m", "3", ".", "7">>,
     conf |-> <<"-", "-", "c", "o", "n", "f">>,
     conf_a |-> <<"-", "-", "c", "o", "n", "f", "=", "a">>,
     conf_e |-> <<"-", "-", "c", "o", "n", "f", "=">>,
     c |-> <<"-", "c">>,
     c_a |-> <<"-", "c", "=", "a">>,
     ca |-> <<"-", "c", "a">>,
     port |-> <<"-", "-", "p", "o", "r", "t">>,
     port_80 |-> <<"-", "-", "p", "o", "r", "t", "=", "8", "0">>,
     p |-> <<"-", "p">>,
     p_80 |-> <<"-", "p", "=", "8", "0">>,
     p80 |-> <<"-", "p", "8", "0">>,
     n80 |-> <<"8", "0">>,
     fail |-> <<"f", "a", "i", "l">>,
     mode_a |-> <<"-", "-", "m", "o", "d", "e", "=", "a">>,
     mode_b |-> <<"-", "-", "m", "o", "d", "e", "=", "b">>,
     mode_c |-> <<"-", "-", "m", "o", "d", "e", "=", "c">>,
     o |-> <<"-", "o">>,
     ob |-> <<"-", "o", "b">>,
     b |-> <<"b">>,
     l1 |-> <<"-", "l", "1">>,
     all_false |-> <<"-", "-", "a", "l", "l", "=", "f", "a", "l", "s", "e">>,
     all_FALSE |-> <<"-", "-", "a", "l", "l", "=", "F", "A", "L", "S", "E">>,
     all_False |-> <<"-", "-", "a", "l", "l", "=", "F", "a", "l", "s", "e">>,
     all_0 |-> <<"-", "-", "a", "l", "l", "=", "0">>,
     all_1 |-> <<"-", "-", "a", "l", "l", "=", "1">>,
     all_yes |-> <<"-", "-", "a", "l", "l", "=", "y", "e", "s">>,
     all_true |-> <<"-", "-", "a", "l", "l", "=", "t", "r", "u", "e">>,
     all_no |-> <<"-", "-", "a", "l", "l", "=", "n", "o">>,
     all_off |-> <<"-", "-", "a", "l", "l", "=", "o", "f", "f">>,
     all_e |-> <<"-", "-", "a", "l", "l", "=">>,
     b_0 |-> <<"-", "b", "=", "0">>,
     b_fAlse |-> <<"-", "b", "=", "f", "A", "l", "s", "e">>,
     ahz |-> <<"-", "a", "h", "z">>,
     az |-> <<"-", "a", "z">>,
     abz |-> <<"-", "a", "b", "z">>,
     cz |-> <<"-", "c", "z">>,
     za |-> <<"-", "z", "a">>,
     app |-> <<"a", "p", "p">>,
     al |-> <<"-", "-", "a", "l">>,
     pont |-> <<"-", "-", "p", "o", "n", "t">>,
     nod |-> <<"-", "-", "n", "o", "d">>,
     fai |-> <<"f", "a", "i">>]

\* The tokens of the specification Spec.
Tokens ==
    {Token.dash, Token.h, Token.help, Token.name, Token.n, Token.v, Token.vn,
     Token.tag_a, Token.nope, Token.z, Token.run, Token.job, Token.a}

\* The options an invocation may be given: every mode with every setting of
\* allowUnknowFlag and allowUnknowCommand.
Options ==
    [mode : Modes, allowUnknowFlag : BOOLEAN, allowUnknowCommand : BOOLEAN]

\* The tokens of the specification SpecValues: values that read as false in
\* a condition (false, 0, the empty string), parsed and as defaults.
ValueTokens ==
    {Token.dash, Token.h, Token.name, Token.run, Token.job, Token.v_0,
     Token.name_e, Token.count_0, Token.force}

\* The tokens of the specification SpecTwice.
TwiceTokens == {Token.dash, Token.h, Token.name, Token.tag_a, Token.run, Token.a}

\* Options that leave unknown flags and commands disallowed and run
\* executables.
StrictOptions ==
    [mode : {"all", "last"}, allowUnknowFlag : {FALSE}, allowUnknowCommand : {FALSE}]

\* The tokens of the specification SpecChain: shorthand chains over calc's
\* boolean flags all (-a) and brief (-b) and its string flag conf (-c), the
\* boolean flags alone, -c alone (which waits for its value), the words
\* false and 0, a chain with the help flag in it (-ahz) and the unknown -z.
ChainTokens ==
    {Token.dash, Token.h, Token.fail, Token.abcab, Token.ab, Token.sa,
     Token.all, Token.false, Token.n0, Token.conf_a, Token.c, Token.ahz,
     Token.z}

\* The tokens of the specification SpecArray: the spellings of values for
\* calc's int[] flag num (-m).
ArrayTokens == {Token.dash, Token.h, Token.num_1, Token.m2, Token.m, Token.num, Token.n3}

\* The argument list of the invocation made before the one SpecArray
\* examines: it leaves num holding [1, 2].
ArraySeed == <<Token.num_1, Token.m2>>

\* The tokens of the specification SpecNumbers: value texts for calc's uint
\* flags port (-p, --port, no hook) and lim (-l, with a hook that accepts) and its
\* int[] flag num (-m): negative, not a number, 2^53 - 1, 2^53 + 1, with
\* trailing characters and with a fraction.
NumberTokens ==
    {Token.dash, Token.h, Token.port, Token.n80, Token.p_neg, Token.px,
     Token.p_max, Token.p_big, Token.p12abc, Token.l_neg, Token.lx, Token.mx,
     Token.m37}

\* The tokens of the specification SpecForms: every spelling of a value for
\* calc's string flag conf and its uint flag port.
FormTokens ==
    {Token.dash, Token.h, Token.fail, Token.a, Token.conf, Token.conf_a,
     Token.conf_e, Token.c, Token.c_a, Token.ca, Token.port, Token.port_80,
     Token.p, Token.p_80, Token.p80, Token.n80}

\* Options that take a word no child is named by as a positional argument.
WordOptions ==
    [mode : {"all", "last"}, allowUnknowFlag : {FALSE}, allowUnknowCommand : {TRUE}]

\* The tokens of the specification SpecErrors: values for calc's string flag
\* mode (-o), whose allow-list is a, b and whose asynchronous hook rejects b;
\* a value its uint flag port cannot hold; a value for its uint flag lim,
\* whose hook accepts and which has no allow-list; the word b, which names no
\* child; and the child fail, whose executable throws.
ErrorTokens ==
    {Token.dash, Token.h, Token.fail, Token.b, Token.mode_a, Token.mode_b,
     Token.mode_c, Token.o, Token.ob, Token.px, Token.l1}

\* Every mode, with an unknown word allowed and not.
ErrorOptions ==
    [mode : Modes, allowUnknowFlag : {FALSE}, allowUnknowCommand : BOOLEAN]

\* The tokens of the specification SpecBool: value texts attached to calc's
\* boolean flags all and brief (-b), and --conf, which waits for its value.
BoolTokens ==
    {Token.dash, Token.h, Token.fail, Token.conf, Token.all_false,
     Token.all_FALSE, Token.all_False, Token.all_0, Token.all_1,
     Token.all_yes, Token.all_true, Token.all_no, Token.all_off, Token.all_e,
     Token.b_0, Token.b_fAlse}

\* Every list of at most max tokens of T.
ArgLists(T, max) == UNION {[1..n -> T] : n \in 0..max}

-----------------------------------------------------------------------------
(* The steps of parseCommand. arg is the token the for-of loop is at.      *)

InLoop(c) == call[c].pc = "loop" /\ call[c].i <= Len(call[c].args)

Arg(c) == call[c].args[call[c].i]

\* What a loop step leaves: the locals and the registry state it computed.
Becomes(c, r) ==
    /\ call' = [call EXCEPT ![c] = r.L]
    /\ value_' = r.V
    /\ UNCHANGED tree

\* Enter, were the registry of every command of the tree reset and not that
\* of the root alone.
EnterResetsAll(c, root, A, O, limit) ==
    /\ call[c].pc \in {"idle", "returned", "thrown"}
    /\ \A d \in Slots : call[d].pc \in {"idle", "returned", "thrown"}
    /\ call[c].n < limit
    /\ \E args \in A, opts \in O :
            call' = [call EXCEPT ![c] =
                [IdleCall EXCEPT
                    !.pc = "loop", !.n = call[c].n + 1,
                    !.args = args, !.mode = opts.mode,
                    !.allowUnknowFlag = opts.allowUnknowFlag,
                    !.allowUnknowCommand = opts.allowUnknowCommand,
                    !.cmd = root,
                    !.userdata = [t |-> "object", of |-> call[c].n + 1],
                    !.levenshteinDistance =
                        IF "levenshteinDistance" \in DOMAIN opts
                        THEN opts.levenshteinDistance
                        ELSE Undefined,
                    !.runner = [cmd |-> root, args |-> <<>>, result |-> Undefined],
                    !.runners = IF opts.mode \in {"all", "runner"}
                                THEN <<[cmd |-> root, args |-> <<>>,
                                        result |-> Undefined]>>
                                ELSE <<>>,
                    !.before = value_]]
    /\ value_' = [f \in FlagIds |-> Null]
    /\ UNCHANGED tree

\* parseCommand(args, root, opts) is entered with an argument list of A and
\* options of O: lines 136-151. The root's registry is reset. At most `limit`
\* invocations are made, one at a time.
Enter(c, root, A, O, limit) ==
    /\ call[c].pc \in {"idle", "returned", "thrown"}
    /\ \A d \in Slots : call[d].pc \in {"idle", "returned", "thrown"}
    /\ call[c].n < limit
    /\ \E args \in A, opts \in O :
            call' = [call EXCEPT ![c] =
                [IdleCall EXCEPT
                    !.pc = "loop", !.n = call[c].n + 1,
                    !.args = args, !.mode = opts.mode,
                    !.allowUnknowFlag = opts.allowUnknowFlag,
                    !.allowUnknowCommand = opts.allowUnknowCommand,
                    !.cmd = root,
                    !.userdata = [t |-> "object", of |-> call[c].n + 1],
                    !.levenshteinDistance =
                        IF "levenshteinDistance" \in DOMAIN opts
                        THEN opts.levenshteinDistance
                        ELSE Undefined,
                    !.runner = [cmd |-> root, args |-> <<>>, result |-> Undefined],
                    !.runners = IF opts.mode \in {"all", "runner"}
                                THEN <<[cmd |-> root, args |-> <<>>,
                                        result |-> Undefined]>>
                                ELSE <<>>,
                    !.before = value_]]
    /\ value_' = reset(root, value_)
    /\ UNCHANGED tree

\* Lines 153-158: help was set by an earlier token.
HelpReturn(c) ==
    /\ InLoop(c)
    /\ Truthy(helpValue(call[c]))
    /\ call' = [call EXCEPT ![c].pc = "returned", ![c].result = [help |-> TRUE]]
    /\ UNCHANGED <<value_, tree>>

\* Lines 160-172: what follows `await flag.parse(arg)` of a pending flag.
pending(L, arg, r) ==
    IF r.message = ""
    THEN [L |-> Continue([r.L EXCEPT !.flag = NoFlag], "value"), V |-> r.V]
    ELSE [L |-> throwFlag(r.L, "invalid argument", L.flagName, arg, r.message),
          V |-> r.V]

\* PendingValue, were the token "-" a positional argument even while a flag
\* awaits its value.
PendingValueButDash(c) ==
    /\ InLoop(c)
    /\ ~Truthy(helpValue(call[c]))
    /\ call[c].flag # NoFlag
    /\ IF Arg(c) = <<"-">>
       THEN Becomes(c, [L |-> Continue(push(call[c], Arg(c)), "arg"), V |-> value_])
       ELSE Becomes(c, pending(call[c], Arg(c), parseInto(call[c], value_, Arg(c))))

\* PendingValue, were the `continue` of line 172 missing: the token parsed
\* as the value of the pending flag would go on to be classified as well.
PendingValueFallsThrough(c) ==
    /\ InLoop(c)
    /\ ~Truthy(helpValue(call[c]))
    /\ call[c].flag # NoFlag
    /\ LET r == parseInto(call[c], value_, Arg(c))
           L == [r.L EXCEPT !.flag = NoFlag]
       IN  IF r.message # ""
           THEN Becomes(c, pending(call[c], Arg(c), r))
           ELSE IF Arg(c) = <<"-">>
           THEN Becomes(c, [L |-> Continue(push(L, Arg(c)), "arg"), V |-> r.V])
           ELSE IF StartsWith(Arg(c), <<"-", "-">>)
           THEN Becomes(c, longFlag(L, r.V, Arg(c)))
           ELSE IF StartsWith(Arg(c), <<"-">>)
           THEN Becomes(c, shortFlag(L, r.V, Arg(c)))
           ELSE Becomes(c, resolve(L, r.V, Arg(c)))

\* Lines 159-173: a flag awaits its value; the token is that value.
PendingValue(c) ==
    /\ InLoop(c)
    /\ ~Truthy(helpValue(call[c]))
    /\ call[c].flag # NoFlag
    /\ Becomes(c, pending(call[c], Arg(c), parseInto(call[c], value_, Arg(c))))

Classified(c) ==
    /\ InLoop(c)
    /\ ~Truthy(helpValue(call[c]))
    /\ call[c].flag = NoFlag

\* Dash, were "-" given no case of its own and handled as any other word.
DashResolved(c) ==
    /\ Classified(c)
    /\ Arg(c) = <<"-">>
    /\ Becomes(c, resolve(call[c], value_, Arg(c)))

\* Lines 175-177: the token "-".
Dash(c) ==
    /\ Classified(c)
    /\ Arg(c) = <<"-">>
    /\ Becomes(c, [L |-> Continue(push(call[c], Arg(c)), "arg"), V |-> value_])

\* Lines 178-207 (and 262-280 when an unknown flag is allowed).
LongFlag(c) ==
    /\ Classified(c)
    /\ Arg(c) # <<"-">>
    /\ StartsWith(Arg(c), <<"-", "-">>)
    /\ Becomes(c, longFlag(call[c], value_, Arg(c)))

\* Lines 208-260 (and 262-280 when an unknown flag is allowed).
ShortFlag(c) ==
    /\ Classified(c)
    /\ Arg(c) # <<"-">>
    /\ ~StartsWith(Arg(c), <<"-", "-">>)
    /\ StartsWith(Arg(c), <<"-">>)
    /\ Becomes(c, shortFlag(call[c], value_, Arg(c)))

\* Lines 262-280: a token that is not in flag syntax.
Word(c) ==
    /\ Classified(c)
    /\ ~StartsWith(Arg(c), <<"-">>)
    /\ Becomes(c, resolve(call[c], value_, Arg(c)))

\* afterLoop, were the check of help after the loop left out.
afterLoopNoHelp(L) ==
    IF L.flag # NoFlag
    THEN throwFlag(L, "flag needs an argument", L.flagName, L.args[Len(L.args)], "")
    ELSE CASE L.mode = "all" -> [L EXCEPT !.pc = "runAll", !.k = 1]
           [] L.mode = "runner" ->
                [L EXCEPT !.pc = "returned", !.result = [runners |-> L.runners]]
           [] OTHER -> [L EXCEPT !.pc = "runLast"]

\* afterLoop, were the check of a pending flag after the loop left out.
afterLoopNoPending(L) ==
    IF Truthy(helpValue(L))
    THEN [L EXCEPT !.pc = "returned", !.result = [help |-> TRUE]]
    ELSE CASE L.mode = "all" -> [L EXCEPT !.pc = "runAll", !.k = 1]
           [] L.mode = "runner" ->
                [L EXCEPT !.pc = "returned", !.result = [runners |-> L.runners]]
           [] OTHER -> [L EXCEPT !.pc = "runLast"]

\* afterLoop, were mode runner to fall through to the executable of the
\* innermost command.
afterLoopRunnerRuns(L) ==
    IF Truthy(helpValue(L))
    THEN [L EXCEPT !.pc = "returned", !.result = [help |-> TRUE]]
    ELSE IF L.flag # NoFlag
    THEN throwFlag(L, "flag needs an argument", L.flagName, L.args[Len(L.args)], "")
    ELSE CASE L.mode = "all" -> [L EXCEPT !.pc = "runAll", !.k = 1]
           [] OTHER -> [L EXCEPT !.pc = "runLast"]

\* afterLoop, were the executable of the innermost command invoked before
\* the check of a flag left pending.
afterLoopDispatchesFirst(L) ==
    IF Truthy(helpValue(L))
    THEN [L EXCEPT !.pc = "returned", !.result = [help |-> TRUE]]
    ELSE IF L.flag # NoFlag
    THEN throwFlag(IF run[L.runner.cmd] /\ L.mode # "runner"
                   THEN invoke(L, value_, L.runner)
                   ELSE L,
                   "flag needs an argument", L.flagName, L.args[Len(L.args)], "")
    ELSE CASE L.mode = "all" -> [L EXCEPT !.pc = "runAll", !.k = 1]
           [] L.mode = "runner" ->
                [L EXCEPT !.pc = "returned", !.result = [runners |-> L.runners]]
           [] OTHER -> [L EXCEPT !.pc = "runLast"]

\* Lines 282-308: the loop is over. Help, then a flag left pending, then
\* the mode: runner returns at once, all and last go on to their executables.
afterLoop(L) ==
    IF Truthy(helpValue(L))
    THEN [L EXCEPT !.pc = "returned", !.result = [help |-> TRUE]]
    ELSE IF L.flag # NoFlag
    THEN throwFlag(L, "flag needs an argument", L.flagName, L.args[Len(L.args)], "")
    ELSE CASE L.mode = "all" -> [L EXCEPT !.pc = "runAll", !.k = 1]
           [] L.mode = "runner" ->
                [L EXCEPT !.pc = "returned", !.result = [runners |-> L.runners]]
           [] OTHER -> [L EXCEPT !.pc = "runLast"]

AfterLoop(c) ==
    /\ call[c].pc = "loop"
    /\ call[c].i > Len(call[c].args)
    /\ call' = [call EXCEPT ![c] = afterLoop(call[c])]
    /\ UNCHANGED <<value_, tree>>

\* RunAll, were the loop of mode all to go on to the next Runner after an
\* executable threw.
RunAllKeepsGoing(c) ==
    /\ call[c].pc = "runAll"
    /\ LET L == call[c]
           r == L.runners[L.k]
           L1 == IF run[r.cmd]
                 THEN [invoke(L, value_, r) EXCEPT !.runners[L.k].result = Ret(r.cmd)]
                 ELSE L
       IN  call' = [call EXCEPT ![c] =
             IF run[r.cmd] /\ throws[r.cmd]
             THEN IF L.k < Len(L.runners)
                  THEN [invoke(L, value_, r) EXCEPT !.k = @ + 1]
                  ELSE threw(L, value_, r)
             ELSE IF L.k < Len(L.runners)
             THEN [L1 EXCEPT !.k = @ + 1]
             ELSE [L1 EXCEPT
                     !.pc = "returned",
                     !.result = [values |->
                        [j \in 1..Len(L1.runners) |-> L1.runners[j].result]]]]
    /\ UNCHANGED <<value_, tree>>

\* Lines 295-303: one turn of the loop of mode all, which awaits the
\* executable of the k-th Runner if it has one; after the last Runner the
\* results are returned.
RunAll(c) ==
    /\ call[c].pc = "runAll"
    /\ LET L == call[c]
           r == L.runners[L.k]
           L1 == IF run[r.cmd]
                 THEN [invoke(L, value_, r) EXCEPT !.runners[L.k].result = Ret(r.cmd)]
                 ELSE L
       IN  call' = [call EXCEPT ![c] =
             IF run[r.cmd] /\ throws[r.cmd]
             THEN threw(L, value_, r)
             ELSE IF L.k < Len(L.runners)
             THEN [L1 EXCEPT !.k = @ + 1]
             ELSE [L1 EXCEPT
                     !.pc = "returned",
                     !.result = [values |->
                        [j \in 1..Len(L1.runners) |-> L1.runners[j].result]]]]
    /\ UNCHANGED <<value_, tree>>

\* Lines 309-317: the executable of the innermost command alone.
RunLast(c) ==
    /\ call[c].pc = "runLast"
    /\ LET L == call[c]
           r == L.runner
           L1 == IF run[r.cmd]
                 THEN [invoke(L, value_, r) EXCEPT !.runner.result = Ret(r.cmd)]
                 ELSE L
       IN  call' = [call EXCEPT ![c] =
             IF run[r.cmd] /\ throws[r.cmd]
             THEN threw(L, value_, r)
             ELSE [L1 EXCEPT !.pc = "returned",
                             !.result = [values |-> <<L1.runner.result>>]]]
    /\ UNCHANGED <<value_, tree>>

Step(c) ==
    \/ HelpReturn(c)
    \/ PendingValue(c)
    \/ Dash(c)
    \/ LongFlag(c)
    \/ ShortFlag(c)
    \/ Word(c)
    \/ AfterLoop(c)
    \/ RunAll(c)
    \/ RunLast(c)

-----------------------------------------------------------------------------
(* Building a tree: Command.add and Flags.add, one argument at a time (the *)
(* loop of add(...cmds) and of add(...flags) does the same for each). What *)
(* was thrown is in built.error, "" when nothing.                          *)

\* Command.add, were it to check neither the parent of the command nor the
\* names of the target's children.
AddUnchecked(p, c) ==
    /\ parent' = [parent EXCEPT ![c] = p]
    /\ children' = [children EXCEPT ![p] = (CmdName[c] :> c) @@ @]
    /\ built' = [op |-> "add", target |-> p, cmd |-> c, error |-> ""]
    /\ UNCHANGED <<long_, short_, value_, call>>

\* p.add(c), command.ts lines 340-361.
Add(p, c) ==
    /\ IF parent[c] # NoCmd
       THEN /\ built' = [op |-> "add", target |-> p, cmd |-> c,
                         error |-> "already added"]
            /\ UNCHANGED <<parent, children>>
       ELSE IF CmdName[c] \in DOMAIN children[p]
       THEN /\ built' = [op |-> "add", target |-> p, cmd |-> c,
                         error |-> "already has command"]
            /\ UNCHANGED <<parent, children>>
       ELSE /\ parent' = [parent EXCEPT ![c] = p]
            /\ children' = [children EXCEPT ![p] = (CmdName[c] :> c) @@ @]
            /\ built' = [op |-> "add", target |-> p, cmd |-> c, error |-> ""]
    /\ UNCHANGED <<long_, short_, value_, call>>

\* Flags.add, were the short name not checked against those in use.
FlagsAddShortUnchecked(c, f) ==
    /\ IF Flag[f].name \in DOMAIN long_[c]
       THEN /\ built' = [op |-> "flags.add", target |-> c, flag |-> f,
                         error |-> "flag redefined"]
            /\ UNCHANGED <<long_, short_>>
       ELSE /\ short_' = IF Flag[f].short # <<>>
                         THEN [short_ EXCEPT ![c] = (Flag[f].short :> f) @@ @]
                         ELSE short_
            /\ long_' = [long_ EXCEPT ![c] = (Flag[f].name :> f) @@ @]
            /\ built' = [op |-> "flags.add", target |-> c, flag |-> f,
                         error |-> ""]
    /\ UNCHANGED <<parent, children, value_, call>>

\* The registry of c is handed the flag f: Flags.add, part_006 lines 572-604.
FlagsAdd(c, f) ==
    /\ IF Flag[f].name \in DOMAIN long_[c]
       THEN /\ built' = [op |-> "flags.add", target |-> c, flag |-> f,
                         error |-> "flag redefined"]
            /\ UNCHANGED <<long_, short_>>
       ELSE IF Flag[f].short # <<>> /\ Flag[f].short \in DOMAIN short_[c]
       THEN /\ built' = [op |-> "flags.add", target |-> c, flag |-> f,
                         error |-> "unable to redefine shorthand"]
            /\ UNCHANGED <<long_, short_>>
       ELSE /\ short_' = IF Flag[f].short # <<>>
                         THEN [short_ EXCEPT ![c] = (Flag[f].short :> f) @@ @]
                         ELSE short_
            /\ long_' = [long_ EXCEPT ![c] = (Flag[f].name :> f) @@ @]
            /\ built' = [op |-> "flags.add", target |-> c, flag |-> f,
                         error |-> ""]
    /\ UNCHANGED <<parent, children, value_, call>>

\* new Flag...({name, short}): the checks of the constructor of Flag,
\* part_003 lines 119-150, on a name and a short name that are strings
\* (short is "" when the option is absent).
NewFlag(name, short) ==
    /\ built' =
          [op |-> "Flag", name |-> name, short |-> short,
           error |->
              IF IndexOf(name, "=") >= 0
              THEN "Flag name cannot contain '='"
              ELSE IF Len(short) > 1
              THEN "Flag short can only be one character"
              ELSE IF short \in {<<"=">>, <<"-">>, <<"'">>, <<"\"">>}
              THEN "Flag short cannot be in [=-'\"]"
              ELSE ""]
    /\ UNCHANGED <<parent, children, long_, short_, value_, call>>

\* new Command({name, run, prepare}), command.ts lines 301-335: the check of
\* the name, and the run attribute. given is the run option ("undefined"
\* when absent); prepare is "none" when the option is absent and else what
\* the callback returns.
NewCommand(name, given, prepare) ==
    /\ built' =
          IF StartsWith(name, <<"-">>)
          THEN [op |-> "Command", name |-> name, given |-> given,
                prepare |-> prepare,
                error |-> "Command names cannot be prefixed with -"]
          ELSE [op |-> "Command", name |-> name, given |-> given,
                prepare |-> prepare, error |-> "",
                run |-> IF prepare # "none" THEN prepare ELSE given]
    /\ UNCHANGED <<parent, children, long_, short_, value_, call>>

\* c.flags.guess(name, levenshteinDistance), called by itself.
GuessFlag(c, name, d) ==
    /\ built' = [op |-> "flags.guess", target |-> c, name |-> name,
                 levenshteinDistance |-> d, found |-> flagsGuess(c, name, d)]
    /\ UNCHANGED <<parent, children, long_, short_, value_, call>>

\* c.guess(name, levenshteinDistance), called by itself.
GuessCommand(c, name, d) ==
    /\ built' = [op |-> "guess", target |-> c, name |-> name,
                 levenshteinDistance |-> d, found |-> commandGuess(c, name, d)]
    /\ UNCHANGED <<parent, children, long_, short_, value_, call>>

\* f.guess(input, levenshteinDistance) for a flag f: FlagString and
\* FlagStrings (part_003 lines 265-267, 283-285) call guessString with the
\* allow-list, the other classes keep the guess of Flag (230-232), which
\* returns null.
GuessValue(f, input, d) ==
    /\ built' = [op |-> "flag.guess", flag |-> f, input |-> input,
                 levenshteinDistance |-> d,
                 found |-> IF Flag[f].type \in {"string", "string[]"}
                           THEN guessString(input, Flag[f].values, d)
                           ELSE Null]
    /\ UNCHANGED <<parent, children, long_, short_, value_, call>>

Init ==
    /\ parent = BuiltParent
    /\ children = BuiltChildren
    /\ long_ = BuiltLong
    /\ short_ = BuiltShort
    /\ value_ = [f \in FlagIds |-> Null]
    /\ call = [c \in Slots |-> IdleCall]
    /\ built = [op |-> "none"]

\* One invocation of parseCommand on the freshly built tree.
Next == \E c \in Slots : Enter(c, "app", ArgLists(Tokens, MaxArgs), Options, 1) \/ Step(c)

Spec == Init /\ [][Next]_vars

\* One invocation on the freshly built tree, over ValueTokens.
NextValues ==
    \E c \in Slots :
        Enter(c, "app", ArgLists(ValueTokens, MaxArgs), StrictOptions, 1) \/ Step(c)

SpecValues == Init /\ [][NextValues]_vars

\* MaxCalls invocations, one after the other, on the same tree.
NextTwice ==
    \E c \in Slots :
        Enter(c, "app", ArgLists(TwiceTokens, MaxArgsTwice), StrictOptions, MaxCalls) \/ Step(c)

SpecTwice == Init /\ [][NextTwice]_vars

\* One invocation on the tree of calc, over FormTokens.
NextForms ==
    \E c \in Slots :
        Enter(c, "calc", ArgLists(FormTokens, MaxArgs), WordOptions, 1) \/ Step(c)

SpecForms == Init /\ [][NextForms]_vars

\* One invocation on the tree of calc, over ChainTokens.
NextChain ==
    \E c \in Slots :
        Enter(c, "calc", ArgLists(ChainTokens, MaxArgs), WordOptions, 1) \/ Step(c)

SpecChain == Init /\ [][NextChain]_vars

\* A second invocation on the tree of calc, over ArrayTokens.
Again(c) ==
    /\ call[c].n = 1
    /\ Enter(c, "calc", ArgLists(ArrayTokens, MaxArgs), WordOptions, 2)

\* An invocation with ArraySeed on the tree of calc, then a second one over
\* ArrayTokens.
NextArray ==
    \E c \in Slots :
        Enter(c, "calc", {ArraySeed}, WordOptions, 1) \/ Again(c) \/ Step(c)

SpecArray == Init /\ [][NextArray]_vars

\* One invocation on the tree of calc, over NumberTokens.
NextNumbers ==
    \E c \in Slots :
        Enter(c, "calc", ArgLists(NumberTokens, MaxArgs), WordOptions, 1) \/ Step(c)

SpecNumbers == Init /\ [][NextNumbers]_vars

\* One invocation on the tree of calc, over ErrorTokens.
NextErrors ==
    \E c \in Slots :
        Enter(c, "calc", ArgLists(ErrorTokens, MaxArgs), ErrorOptions, 1) \/ Step(c)

SpecErrors == Init /\ [][NextErrors]_vars

\* One invocation on the tree of calc, over BoolTokens.
NextBool ==
    \E c \in Slots :
        Enter(c, "calc", ArgLists(BoolTokens, MaxArgs), WordOptions, 1) \/ Step(c)

SpecBool == Init /\ [][NextBool]_vars

\* One invocation on the tree of calc, with an unknown flag allowed and not,
\* over shorthand chains that hold a character no flag of calc is named by:
\* after a boolean flag (-az, -abz), after the help flag (-ahz), after the
\* string flag conf (-cz) and first (-z, -za).
NextUnknown ==
    \E c \in Slots :
        \/ Enter(c, "calc",
                 ArgLists({Token.dash, Token.h, Token.fail, Token.all, Token.c,
                           Token.ab, Token.az, Token.abz, Token.ahz, Token.cz,
                           Token.z, Token.za}, MaxArgs),
                 [mode : {"all", "last"}, allowUnknowFlag : BOOLEAN,
                  allowUnknowCommand : BOOLEAN], 1)
        \/ Step(c)

SpecUnknown == Init /\ [][NextUnknown]_vars

\* Invocations on the tree in which app was added to fail and not left a
\* root (calc -> fail -> app -> run -> job), with calc or app as the root
\* command of the invocation: below fail, whose executable throws, there
\* are commands with an executable.
NextDeep ==
    \E c \in Slots :
        \/ \E root \in {"calc", "app"} :
              Enter(c, root,
                    ArgLists({Token.dash, Token.h, Token.fail, Token.app,
                              Token.run, Token.job, Token.name, Token.a},
                             MaxArgs),
                    [mode : Modes, allowUnknowFlag : {FALSE},
                     allowUnknowCommand : {TRUE}], 1)
        \/ Step(c)

SpecDeep ==
    /\ parent = [BuiltParent EXCEPT !["app"] = "fail"]
    /\ children = [BuiltChildren EXCEPT !["fail"] = (CmdName["app"] :> "app")]
    /\ long_ = BuiltLong
    /\ short_ = BuiltShort
    /\ value_ = [f \in FlagIds |-> Null]
    /\ call = [c \in Slots |-> IdleCall]
    /\ built = [op |-> "none"]
    /\ [][NextDeep]_vars

\* Two invocations in progress at a time, neither awaited before the other
\* is made: the first on the tree of app in mode last, the second on the
\* tree of app or on that of calc in mode all. parseCommand runs on from
\* where it is until it awaits, and another invocation is entered or
\* resumed only then: at `await flag.parse(...)` (the step about to be taken
\* parses, or the step just taken did) and at `await run(...)`.
NextConcurrent ==
    \E c \in {1, 2} :
        LET Suspended(d) ==
                \/ call[d].pc \in {"idle", "returned", "thrown"}
                \/ /\ InLoop(d)
                   /\ ~Truthy(helpValue(call[d]))
                   /\ \/ call[d].flag # NoFlag
                      \/ Arg(d) # <<"-">> /\ StartsWith(Arg(d), <<"-">>)
                \/ /\ call[d].pc = "loop"
                   /\ call[d].i > 1
                   /\ call[d].how[call[d].i - 1].as \in {"value", "flag"}
                   /\ call[d].flag = NoFlag
                \/ /\ call[d].pc = "runAll"
                   /\ call[d].k > 1
                   /\ run[call[d].runners[call[d].k - 1].cmd]
        IN  /\ \A d \in {1, 2} \ {c} : Suspended(d)
            /\ \/ /\ call[c].pc = "idle"
                  /\ \E root \in (IF c = 1 THEN {"app"} ELSE {"app", "calc"}),
                        args \in ArgLists({Token.dash, Token.h, Token.name,
                                           Token.a, Token.all},
                                          MaxArgsTwice) :
                        /\ call' = [call EXCEPT ![c] =
                              [IdleCall EXCEPT
                                  !.pc = "loop", !.n = 1, !.args = args,
                                  !.mode = IF c = 1 THEN "last" ELSE "all",
                                  !.cmd = root,
                                  !.userdata = [t |-> "object", of |-> c],
                                  !.runner = [cmd |-> root, args |-> <<>>,
                                              result |-> Undefined],
                                  !.runners = IF c = 1
                                              THEN <<>>
                                              ELSE <<[cmd |-> root, args |-> <<>>,
                                                      result |-> Undefined]>>,
                                  !.before = value_]]
                        /\ value_' = reset(root, value_)
                        /\ UNCHANGED tree
               \/ Step(c)

SpecConcurrent ==
    /\ parent = BuiltParent
    /\ children = BuiltChildren
    /\ long_ = BuiltLong
    /\ short_ = BuiltShort
    /\ value_ = [f \in FlagIds |-> Null]
    /\ call = [c \in {1, 2} |-> IdleCall]
    /\ built = [op |-> "none"]
    /\ [][NextConcurrent]_vars

\* On the built tree, either one call of a guess by itself, with an
\* input and a threshold (absent, NaN, -1, 0, 0.5, 1, 2 or 3), or one
\* invocation on the tree of calc with a threshold in its options (absent,
\* 0, 0.5, 1 or 2), over tokens that misspell flags and the child of calc:
\* --al (all), --pont (port, and conf at distance 2), --nod (num and mode,
\* both at distance 2) and fai (fail).
NextGuess ==
    LET D == {Undefined, NaN} \cup
             {[t |-> "number", half |-> h] : h \in {-2, 0, 1, 2, 4, 6}}
        Names == {<<>>, <<"a">>, <<"c">>, <<"a", "b">>, <<"a", "l", "l">>,
                  <<"a", "l">>, <<"p", "o", "n", "t">>, <<"n", "o", "d">>,
                  <<"f", "a", "i", "l">>, <<"f", "a", "i">>, <<"f", "l">>,
                  <<"r", "u", "n">>, <<"j", "o", "b">>, <<"j", "b">>}
    IN  \/ \E c \in Slots :
              \/ /\ built.op = "none"
                 /\ Enter(c, "calc",
                          ArgLists({Token.dash, Token.h, Token.conf, Token.fail,
                                    Token.al, Token.pont, Token.nod, Token.fai},
                                   MaxArgs),
                          [mode : {"all", "last"}, allowUnknowFlag : {FALSE},
                           allowUnknowCommand : {FALSE},
                           levenshteinDistance :
                              {d \in D : d.t = "number" => d.half \in {0, 1, 2, 4}}
                              \ {NaN}],
                          1)
              \/ Step(c)
        \/ /\ built.op = "none"
           /\ \A c \in Slots : call[c].pc = "idle"
           /\ \E name \in Names, d \in D :
                \/ \E c \in {"app", "calc", "fail"} : GuessFlag(c, name, d)
                \/ \E c \in {"app", "calc", "fail"} : GuessCommand(c, name, d)
                \/ \E f \in {"calc.mode", "calc.conf", "calc.port"} :
                        GuessValue(f, name, d)

SpecGuess == Init /\ [][NextGuess]_vars

\* The tree before any add: the commands are constructed, each registry is
\* empty.
InitBuild ==
    /\ parent = [c \in Commands |-> NoCmd]
    /\ children = [c \in Commands |-> <<>>]
    /\ long_ = [c \in Commands |-> <<>>]
    /\ short_ = [c \in Commands |-> <<>>]
    /\ value_ = [f \in FlagIds |-> Null]
    /\ call = [c \in Slots |-> IdleCall]
    /\ built = [op |-> "none"]

\* Any sequence of add calls among app, run and twin, of flags handed to
\* the registry of job (two flags named "name" with the short name n, two
\* named "conf", one of which shares its short name c with count, and two
\* without a short name), and of constructions of a flag and of a command
\* from options.
NextBuild ==
    \/ \E p, c \in {"app", "run", "twin"} : Add(p, c)
    \/ \E f \in {"app.name", "run.name", "job.count", "calc.conf", "twin.raw",
                  "twin.conf"} : FlagsAdd("job", f)
    \/ \E name \in {<<>>, <<"n">>, <<"a", "=", "b">>},
          short \in {<<>>, <<"x">>, <<"x", "y">>, <<"=">>, <<"-">>, <<"'">>,
                     <<"\"">>} :
            NewFlag(name, short)
    \/ \E name \in {<<"x">>, <<"-", "x">>},
          given \in {"undefined", "callback"},
          prepare \in {"none", "undefined", "null", "prepared"} :
            NewCommand(name, given, prepare)

SpecBuild == InitBuild /\ [][NextBuild]_vars

-----------------------------------------------------------------------------
(* What the properties are stated with.                                    *)

Done(c) == call[c].pc \in {"returned", "thrown"}

RECURSIVE pathOf(_)
\* The commands from the root to c, following parent links as use() does.
pathOf(c) == IF parent[c] = NoCmd THEN <<c>> ELSE Append(pathOf(parent[c]), c)

RECURSIVE ArgsUpTo(_, _, _)
\* The tokens among the first j of L.args that were consumed as positional
\* arguments while command c was current, in input order.
ArgsUpTo(L, c, j) ==
    IF j = 0
    THEN <<>>
    ELSE IF L.how[j].as = "arg" /\ L.how[j].cmd = c
    THEN Append(ArgsUpTo(L, c, j - 1), L.args[j])
    ELSE ArgsUpTo(L, c, j - 1)

PositionalsOf(L, c) == ArgsUpTo(L, c, Len(L.how))

RECURSIVE RanOf(_, _)
\* The commands of path P that have an executable, in path order.
RanOf(P, j) ==
    IF j = 0
    THEN <<>>
    ELSE IF run[P[j]] THEN Append(RanOf(P, j - 1), P[j]) ELSE RanOf(P, j - 1)

\* The commands whose executables were invoked, in the order of invocation.
RanCmds(L) == [j \in 1..Len(L.ran) |-> L.ran[j].cmd]

\* What the executable of c returns, undefined when c has none.
ResultOf(c) == IF run[c] THEN Ret(c) ELSE Undefined

IsLong(tok) == StartsWith(tok, <<"-", "-">>)

IsShort(tok) == tok # <<"-">> /\ StartsWith(tok, <<"-">>) /\ ~IsLong(tok)

\* The name a token in flag syntax asks for first: the text between "--"
\* and "=", or the character after "-".
FirstName(tok) ==
    IF IsLong(tok)
    THEN LET rest == SubSeq(tok, 3, Len(tok))
         IN  IF \E k \in 1..Len(rest) : rest[k] = "="
             THEN SubSeq(rest, 1, (CHOOSE k \in 1..Len(rest) :
                        rest[k] = "=" /\ \A j \in 1..(k - 1) : rest[j] # "=") - 1)
             ELSE rest
    ELSE <<tok[2]>>

\* Whether command c declares a flag of that long (or short) name.
Declares(c, name, short) ==
    \E f \in FlagIds :
        /\ Flag[f].cmd = c
        /\ name = (IF short THEN Flag[f].short ELSE Flag[f].name)

IsHelpName(name, short) ==
    name = (IF short THEN <<"h">> ELSE <<"h", "e", "l", "p">>)

-----------------------------------------------------------------------------
(* C2. As stated: if -h or --help occurs at any position of the argument   *)
(* list, the invocation returns help = true and invokes no executable.     *)
(* Stated here of the invocations that return, which is the least the      *)
(* claim says; it fails where the token is the value of a pending flag.    *)
C2_HelpAnywhere ==
    \A c \in Slots :
        (/\ call[c].pc = "returned"
         /\ \E j \in 1..Len(call[c].args) : call[c].args[j] \in {Token.h, Token.help})
        => call[c].result = [help |-> TRUE] /\ call[c].ran = <<>>

\* C2, amended. If -h or --help is read as a flag token (no flag awaits a
\* value when it is read and no earlier token aborted the parse) by a
\* command that declares no flag named help or h, then no executable is
\* invoked, nothing is thrown, and what is returned is help = true: also
\* when the token is the last one and for the root and subcommands alike.
C2_HelpShortCircuits ==
    \A c \in Slots :
        LET L == call[c]
        IN  (\E j \in 1..Len(L.how) :
                /\ L.how[j].as = "flag"
                /\ L.args[j] \in {Token.h, Token.help}
                /\ ~Declares(L.how[j].cmd, FirstName(L.args[j]), IsShort(L.args[j])))
            => /\ L.ran = <<>>
               /\ L.pc \in {"loop", "returned"}
               /\ L.pc = "returned" => L.result = [help |-> TRUE]

\* C2 witness: -h is the last token, read by the subcommand run, and the
\* invocation returned help.
C2_Witness ==
    \E c \in Slots :
        /\ call[c].pc = "returned"
        /\ call[c].result = [help |-> TRUE]
        /\ call[c].args = <<Token.run, Token.h>>
        /\ call[c].how = <<[as |-> "child", cmd |-> "app"], [as |-> "flag", cmd |-> "run"]>>
        /\ call[c].mode = "all"

-----------------------------------------------------------------------------
(* C3. A parse that returns values: in mode all the executable of every    *)
(* command on the matched path ran exactly once in root-to-leaf order and  *)
(* values holds one result per path command in that order (undefined for a *)
(* command without executable); in mode last, or with no mode, only the    *)
(* innermost command's executable ran and values has exactly one element.  *)
C3_ModesRunPath ==
    \A c \in Slots :
        LET L == call[c]
            P == pathOf(L.cmd)
        IN  (L.pc = "returned" /\ L.result # [help |-> TRUE] /\ L.mode # "runner")
            => /\ DOMAIN L.result = {"values"}
               /\ IF L.mode = "all"
                  THEN /\ RanCmds(L) = RanOf(P, Len(P))
                       /\ L.result.values = [j \in 1..Len(P) |-> ResultOf(P[j])]
                  ELSE /\ RanCmds(L) = (IF run[L.cmd] THEN <<L.cmd>> ELSE <<>>)
                       /\ L.result.values = <<ResultOf(L.cmd)>>

\* C3 witness: mode all down to job, which has no executable: app and run
\* ran in that order and the third result is undefined.
C3_Witness ==
    \E c \in Slots :
        /\ call[c].pc = "returned"
        /\ call[c].mode = "all"
        /\ call[c].cmd = "job"
        /\ RanCmds(call[c]) = <<"app", "run">>
        /\ call[c].result = [values |-> <<Ret("app"), Ret("run"), Undefined>>]

-----------------------------------------------------------------------------
(* C4. In mode runner no executable is invoked at any point; the runners   *)
(* returned list the matched path from the root to the innermost command,  *)
(* each Runner's command a child of the previous Runner's command, each    *)
(* with the positional arguments read while its command was current.       *)
C4_RunnerModeReturnsPath ==
    \A c \in Slots :
        LET L == call[c]
            P == pathOf(L.cmd)
        IN  L.mode = "runner"
            => /\ L.ran = <<>>
               /\ L.pc \notin {"runAll", "runLast"}
               /\ (L.pc = "returned" /\ L.result # [help |-> TRUE])
                  => /\ DOMAIN L.result = {"runners"}
                     /\ Len(L.result.runners) = Len(P)
                     /\ \A j \in 1..Len(P) :
                          /\ L.result.runners[j].cmd = P[j]
                          /\ j > 1 => child(L.result.runners[j - 1].cmd,
                                            CmdName[P[j]]) = P[j]
                          /\ L.result.runners[j].args = PositionalsOf(L, P[j])
                          /\ L.result.runners[j].result = Undefined

\* C4 witness: mode runner returned the three Runners of app, run and job,
\* the last with a positional argument.
C4_Witness ==
    \E c \in Slots :
        /\ call[c].pc = "returned"
        /\ call[c].mode = "runner"
        /\ call[c].args = <<Token.run, Token.job, Token.a>>
        /\ call[c].result =
             [runners |-> <<[cmd |-> "app", args |-> <<>>, result |-> Undefined],
                            [cmd |-> "run", args |-> <<>>, result |-> Undefined],
                            [cmd |-> "job", args |-> <<Token.a>>, result |-> Undefined]>>]

-----------------------------------------------------------------------------
(* C5. Flag lookup uses only the registry of the current command: with     *)
(* unknown flags disallowed, a token asking for a flag that the current    *)
(* command does not declare, though another command of the tree does (its  *)
(* parent, its child), aborts the parse with an unknown-flag error and     *)
(* sets no flag.                                                           *)
C5_FlagLookupScoped ==
    [][\A c \in Slots :
         (/\ Classified(c)
          /\ IsLong(Arg(c)) \/ IsShort(Arg(c))
          /\ ~call[c].allowUnknowFlag
          /\ ~Declares(call[c].cmd, FirstName(Arg(c)), IsShort(Arg(c)))
          /\ \E d \in Commands :
                Declares(d, FirstName(Arg(c)), IsShort(Arg(c))))
         => /\ call'[c].pc = "thrown"
            /\ call'[c].error.by = "throwFlag"
            /\ call'[c].error.message \in {"Unknow flag", "Unknow shorthand flag"}
            /\ call'[c].error.cmd = call[c].cmd
            /\ value_' = value_]_vars

\* C5 witness: after the descent into run, the root's -v was rejected as
\* unknown.
C5_Witness ==
    \E c \in Slots :
        /\ call[c].pc = "thrown"
        /\ call[c].args = <<Token.run, Token.v>>
        /\ call[c].error.by = "throwFlag"
        /\ call[c].error.message = "Unknow shorthand flag"
        /\ call[c].error.cmd = "run"

-----------------------------------------------------------------------------
(* C6. Processing a flag token, or the value of a pending flag, while      *)
(* command C is current changes value_ of flags of C's registry only; and  *)
(* a flag of a command on the matched path that has no default and was     *)
(* given no value on its own scope reads null in every executable,         *)
(* whatever was supplied to a same-named flag of another command.          *)
C6_FlagFrame ==
    /\ [][\A c \in Slots :
            (/\ InLoop(c)
             /\ ~Truthy(helpValue(call[c]))
             /\ \/ call[c].flag # NoFlag
                \/ IsLong(Arg(c))
                \/ IsShort(Arg(c)))
            => \A f \in FlagIds :
                    value_'[f] # value_[f] => Flag[f].cmd = call[c].cmd]_vars
    /\ [](\A c \in Slots : \A j \in 1..Len(call[c].ran) : \A f \in FlagIds :
            (/\ \E k \in 1..Len(pathOf(call[c].cmd)) :
                    pathOf(call[c].cmd)[k] = Flag[f].cmd
             /\ Flag[f].default = Null
             /\ call[c].given[f] = <<>>)
            => call[c].ran[j].seen[f] = Null)

\* C6 witness: --name a was given to app, then run ran: app's name reads
\* "a" and run's own name reads null.
C6_Witness ==
    \E c \in Slots : \E j \in 1..Len(call[c].ran) :
        /\ call[c].args = <<Token.name, Token.a, Token.run>>
        /\ call[c].ran[j].cmd = "run"
        /\ call[c].ran[j].seen["app.name"] = Str(<<"a">>)
        /\ call[c].ran[j].seen["run.name"] = Null

-----------------------------------------------------------------------------
(* C8. A token in long or short flag syntax whose name is neither in the   *)
(* current command's registry nor help/h: with allowUnknowFlag false it    *)
(* aborts the parse with a flag error; with allowUnknowFlag true it raises *)
(* no error and is appended to the current command's positional arguments. *)
(* The code breaks the second half: where the current command has children *)
(* and no positional argument yet, the token is tried as a child's name    *)
(* and raises the unknown-command error.                                   *)
C8_UnknownFlag ==
    [][\A c \in Slots :
         (/\ Classified(c)
          /\ IsLong(Arg(c)) \/ IsShort(Arg(c))
          /\ ~Declares(call[c].cmd, FirstName(Arg(c)), IsShort(Arg(c)))
          /\ ~IsHelpName(FirstName(Arg(c)), IsShort(Arg(c))))
         => IF ~call[c].allowUnknowFlag
            THEN /\ call'[c].pc = "thrown"
                 /\ call'[c].error.by = "throwFlag"
            ELSE /\ call'[c].pc = "loop"
                 /\ call'[c].cmd = call[c].cmd
                 /\ strs(call'[c]) = Append(strs(call[c]), Arg(c))]_vars

-----------------------------------------------------------------------------
(* C9. If the argument list ends right after a non-boolean flag given      *)
(* without an attached value (--name or -x as the last token, or a         *)
(* shorthand chain of booleans ending in a non-boolean flag), and help was *)
(* not triggered, the parse fails with the flag error "flag needs an       *)
(* argument" and no executable is invoked.                                 *)

\* Whether tok, read as a flag token by command c, names a non-boolean
\* flag of c last and attaches no value to it.
EndsOpen(tok, c) ==
    \/ /\ IsLong(tok)
       /\ \E f \in FlagIds :
            Flag[f].cmd = c /\ ~isBool(f) /\ tok = <<"-", "-">> \o Flag[f].name
    \/ /\ IsShort(tok)
       /\ \A k \in 2..(Len(tok) - 1) :
            \E f \in FlagIds :
                Flag[f].cmd = c /\ isBool(f) /\ Flag[f].short = <<tok[k]>>
       /\ \E f \in FlagIds :
            Flag[f].cmd = c /\ ~isBool(f) /\ Flag[f].short = <<tok[Len(tok)]>>

C9_MissingValueAtEnd ==
    \A c \in Slots :
        LET L == call[c]
            n == Len(L.args)
        IN  (/\ n >= 1
             /\ Len(L.how) = n
             /\ L.how[n].as = "flag"
             /\ EndsOpen(L.args[n], L.how[n].cmd)
             /\ ~Truthy(helpValue(L)))
            => /\ L.ran = <<>>
               /\ L.pc \in {"loop", "thrown"}
               /\ L.pc = "thrown"
                  => /\ L.error.by = "throwFlag"
                     /\ L.error.message = "flag needs an argument"
                     /\ L.error.arg = L.args[n]

\* C9 witness: the list ended with the chain -vn, n naming a string flag,
\* and the flag error was thrown.
C9_Witness ==
    \E c \in Slots :
        /\ call[c].pc = "thrown"
        /\ call[c].args = <<Token.a, Token.vn>>
        /\ call[c].error.message = "flag needs an argument"
        /\ call[c].error.name = <<"-", "n">>

-----------------------------------------------------------------------------
(* C10. As stated: wherever the token "-" occurs in the argument list, it  *)
(* is appended to the positional arguments of the current command. This    *)
(* fails where a flag awaits its value: the token is that value.           *)
C10_DashAlwaysPositional ==
    \A c \in Slots : \A j \in 1..Len(call[c].how) :
        call[c].args[j] = Token.dash => call[c].how[j].as = "arg"

\* C10, amended. The token "-" never triggers flag or subcommand
\* resolution. Read while no flag awaits a value, it is appended to the
\* positional arguments of the current command, which stays current, and
\* nothing is thrown; read while a flag awaits its value, it is consumed as
\* that flag's value and no command's positional arguments change.
C10_DashNeverResolved ==
    [][\A c \in Slots :
         (InLoop(c) /\ ~Truthy(helpValue(call[c])) /\ Arg(c) = Token.dash)
         => /\ call'[c].cmd = call[c].cmd
            /\ call'[c].runners = IF call[c].flag = NoFlag /\ tracked(call[c])
                                  THEN [call[c].runners
                                            EXCEPT ![Len(call[c].runners)].args =
                                                Append(@, Token.dash)]
                                  ELSE call[c].runners
            /\ IF call[c].flag = NoFlag
               THEN /\ strs(call'[c]) = Append(strs(call[c]), Token.dash)
                    /\ call'[c].pc = "loop"
                    /\ call'[c].flag = NoFlag
                    /\ value_' = value_
               ELSE /\ strs(call'[c]) = strs(call[c])
                    /\ \/ /\ call'[c].pc = "loop"
                          /\ call'[c].flag = NoFlag
                          /\ call'[c].how[call[c].i].as = "value"
                       \/ /\ call'[c].pc = "thrown"
                          /\ call'[c].error.message = "invalid argument"]_vars

\* C10 witness: "-" was the first token at the root, which has children,
\* with unknown commands disallowed: it became the root's positional
\* argument and the parse went on.
C10_Witness ==
    \E c \in Slots :
        /\ call[c].args = <<Token.dash, Token.run>>
        /\ ~call[c].allowUnknowCommand
        /\ call[c].pc = "returned"
        /\ call[c].how = <<[as |-> "arg", cmd |-> "app"], [as |-> "arg", cmd |-> "app"]>>
        /\ call[c].runner = [cmd |-> "app", args |-> <<Token.dash, Token.run>>,
                             result |-> Ret("app")]

-----------------------------------------------------------------------------
(* What a flag must read as, from the values it was given in this          *)
(* invocation alone: the last one (all of them, in order, for an array     *)
(* flag), else its default, else null.                                     *)
Expected(L, f) ==
    IF L.given[f] # <<>>
    THEN IF isArray(f) THEN Arr(L.given[f]) ELSE L.given[f][Len(L.given[f])]
    ELSE IF Flag[f].default # Null THEN Flag[f].default ELSE Null

OnPath(L, f) ==
    \E k \in 1..Len(pathOf(L.cmd)) : pathOf(L.cmd)[k] = Flag[f].cmd

\* C1. For invocations run one after the other on the same tree: when an
\* executable runs, every flag of every command on the matched path reads
\* as what this invocation's arguments gave it, else its default, else
\* null; nothing parsed by an earlier invocation is read, and an array flag
\* holds no element of an earlier invocation.
C1_NoLeakBetweenCalls ==
    \A c \in Slots : \A j \in 1..Len(call[c].ran) : \A f \in FlagIds :
        OnPath(call[c], f) => call[c].ran[j].seen[f] = Expected(call[c], f)

\* C1 witness: the second invocation was entered with run's tag holding
\* ["a"] from the first; it gave --tag=a once, and run's executable read
\* tag as ["a"], not ["a", "a"].
C1_Witness ==
    \E c \in Slots : \E j \in 1..Len(call[c].ran) :
        /\ call[c].n = 2
        /\ call[c].before["run.tag"] = Arr(<<Str(<<"a">>)>>)
        /\ call[c].args = <<Token.run, Token.tag_a>>
        /\ call[c].ran[j].cmd = "run"
        /\ call[c].ran[j].seen["run.tag"] = Arr(<<Str(<<"a">>)>>)

-----------------------------------------------------------------------------
(* C7. Reading value: a flag that received no value since its last reset   *)
(* reads as its default if it has one (also the defaults false, 0 and "")  *)
(* and as null otherwise; a flag that received a value reads as the value  *)
(* parsed, also when that is false, 0 or "". In one invocation on a fresh  *)
(* tree, a flag's last reset precedes every value it is given.             *)
C7_ValueFallsBackToDefault ==
    \A c \in Slots : \A f \in FlagIds :
        value(f, value_) = Expected(call[c], f)

\* C7 witness: -v=0 gave app's verbose false and --name= gave run's name
\* the empty string; run's force, job's count and job's out, given nothing,
\* read as their defaults false, 0 and "".
C7_Witness ==
    \E c \in Slots :
        /\ call[c].args = <<Token.v_0, Token.run, Token.name_e>>
        /\ call[c].pc = "returned"
        /\ call[c].given["app.verbose"] = <<Bool(FALSE)>>
        /\ value("app.verbose", value_) = Bool(FALSE)
        /\ value("run.name", value_) = Str(<<>>)
        /\ call[c].given["run.force"] = <<>>
        /\ value("run.force", value_) = Bool(FALSE)
        /\ value("job.count", value_) = Num(0)
        /\ value("job.out", value_) = Str(<<>>)
        /\ value("app.name", value_) = Null

-----------------------------------------------------------------------------
\* "--" and the long name of flag f; "-" and its short name.
Long(f) == <<"-", "-">> \o Flag[f].name

Short(f) == <<"-">> \o Flag[f].short

\* The argument lists that spell value text v for flag f: --n=v, --n v,
\* -c=v, -c v, and -cv when v is non-empty and does not start with "=".
Spelled(f, v) ==
    {<<Long(f) \o <<"=">> \o v>>, <<Long(f), v>>,
     <<Short(f) \o <<"=">> \o v>>, <<Short(f), v>>}
    \cup (IF v # <<>> /\ v[1] # "=" THEN {<<Short(f) \o v>>} ELSE {})

\* The flags, value texts and converted values the spellings are compared on.
FormCases ==
    {[f |-> "calc.conf", v |-> <<"a">>, val |-> Str(<<"a">>)],
     [f |-> "calc.port", v |-> <<"8", "0">>, val |-> Num(80)]}

\* What an invocation left behind: the flags' state, the positional
\* arguments, the pending flag, the executables run and what was returned.
Outcome(c) ==
    [pc |-> call[c].pc, V |-> value_, args |-> strs(call[c]),
     flag |-> call[c].flag, ran |-> call[c].ran, result |-> call[c].result]

\* The one outcome of giving flag k.f the value k.val on calc and nothing
\* else.
OutcomeOf(k) ==
    LET V == [g \in FlagIds |-> IF g = k.f THEN k.val ELSE Null]
    IN  [pc |-> "returned", V |-> V, args |-> <<>>, flag |-> NoFlag,
         ran |-> <<[cmd |-> "calc", args |-> <<>>,
                    userdata |-> [t |-> "object", of |-> 1],
                    seen |-> [g \in FlagIds |-> value(g, V)]]>>,
         result |-> [values |-> <<Ret("calc")>>]]

\* C11. For a non-boolean flag with long name n and short name c and a
\* value text v, the argument lists [--n=v], [--n, v], [-c=v], [-c, v] and,
\* v being non-empty and not starting with "=", [-cv] all end in one and
\* the same outcome: the flag holds the converted v, every other flag is
\* untouched, there is no positional argument, and the result is the same.
C11_SpellingsAgree ==
    \A c \in Slots : \A k \in FormCases :
        (Done(c) /\ call[c].args \in Spelled(k.f, k.v))
        => Outcome(c) = OutcomeOf(k)

\* C11 witness: -p80, the attached shorthand spelling, has returned with
\* port holding 80, as the other four spellings of 80 do.
C11_Witness ==
    \E c \in Slots :
        /\ call[c].pc = "returned"
        /\ call[c].args = <<Token.p80>>
        /\ call[c].args \in Spelled("calc.port", <<"8", "0">>)
        /\ Cardinality(Spelled("calc.port", <<"8", "0">>)) = 5
        /\ value_["calc.port"] = Num(80)
        /\ Outcome(c) = OutcomeOf([f |-> "calc.port", v |-> <<"8", "0">>,
                                   val |-> Num(80)])

-----------------------------------------------------------------------------
\* The sequences of one or two of calc's boolean flags.
BoolChains ==
    UNION {[1..n -> {"calc.all", "calc.brief"}] : n \in 1..2}

\* The shorthand token naming the flags of bs one after the other.
ChainOf(bs) == <<"-">> \o [j \in 1..Len(bs) |-> Flag[bs[j]].short[1]]

\* The registry state with every flag of bs holding true.
AllTrue(V, bs) ==
    [g \in FlagIds |->
        IF \E j \in 1..Len(bs) : bs[j] = g THEN Bool(TRUE) ELSE V[g]]

\* C12. A shorthand token -b1...bkcV (b1..bk short names of boolean flags
\* of the current command, c that of a non-boolean flag of it, V non-empty
\* and not starting with "=") sets every bi to true and gives c the value
\* V; a token -b1...bk sets every bi to true and leaves no flag pending.
\* Either way no other flag changes, nothing is thrown and the token is no
\* positional argument.
C12_ShorthandChain ==
    [][\A c \in Slots : \A bs \in BoolChains :
         (Classified(c) /\ call[c].cmd = "calc")
         => /\ Arg(c) = ChainOf(bs) \o <<"c", "a", "b">>
               => /\ value_' = [AllTrue(value_, bs) EXCEPT
                                   !["calc.conf"] = Str(<<"a", "b">>)]
                  /\ call'[c].pc = "loop"
                  /\ call'[c].flag = NoFlag
                  /\ strs(call'[c]) = strs(call[c])
            /\ Arg(c) = ChainOf(bs)
               => /\ value_' = AllTrue(value_, bs)
                  /\ call'[c].pc = "loop"
                  /\ call'[c].flag = NoFlag
                  /\ strs(call'[c]) = strs(call[c])]_vars

\* C12 witness: -abcab was read after --conf=a: all and brief hold true and
\* conf holds "ab", the rest of the token, in place of "a".
C12_Witness ==
    \E c \in Slots :
        /\ call[c].args = <<Token.conf_a, Token.abcab>>
        /\ Token.abcab = ChainOf(<<"calc.all", "calc.brief">>) \o <<"c", "a", "b">>
        /\ call[c].pc = "returned"
        /\ value_["calc.all"] = Bool(TRUE)
        /\ value_["calc.brief"] = Bool(TRUE)
        /\ value_["calc.conf"] = Str(<<"a", "b">>)

-----------------------------------------------------------------------------
\* How a token read while no flag awaits a value is classified on its own,
\* where unknown commands are allowed: a token in flag syntax as a flag, the
\* name of a child of the current command (no positional argument having
\* been read yet) as a subcommand, "-" and any other word as a positional.
ClassOf(L, j) ==
    IF L.args[j] # <<"-">> /\ StartsWith(L.args[j], <<"-">>)
    THEN "flag"
    ELSE IF /\ L.args[j] # <<"-">>
            /\ PositionalsOf([L EXCEPT !.how = SubSeq(L.how, 1, j - 1)],
                             L.how[j].cmd) = <<>>
            /\ child(L.how[j].cmd, L.args[j]) # NoCmd
    THEN "child"
    ELSE "arg"

\* C13. A boolean flag given as --name or -x with no attached value is set
\* to true at once and does not become pending; the token that follows is
\* classified on its own, as a flag, a subcommand name or a positional
\* argument, also when it is false or 0, and the flag still holds true.
C13_BooleanTakesNoValue ==
    /\ [][\A c \in Slots :
            (Classified(c) /\ call[c].cmd = "calc" /\ Arg(c) \in {Token.all, Token.sa})
            => /\ value_' = [value_ EXCEPT !["calc.all"] = Bool(TRUE)]
               /\ call'[c].flag = NoFlag
               /\ call'[c].pc = "loop"]_vars
    /\ [](\A c \in Slots : \A j \in 1..Len(call[c].how) :
            (/\ j > 1
             /\ call[c].args[j - 1] \in {Token.all, Token.sa}
             /\ call[c].how[j - 1] = [as |-> "flag", cmd |-> "calc"])
            => /\ call[c].how[j].as = ClassOf(call[c], j)
               /\ call[c].args[j] \in {Token.false, Token.n0}
                  => value_["calc.all"] = Bool(TRUE))

\* C13 witness: --all false returned with all holding true and false as
\* the positional argument handed to calc's executable.
C13_Witness ==
    \E c \in Slots :
        /\ call[c].args = <<Token.all, Token.false>>
        /\ call[c].pc = "returned"
        /\ call[c].how = <<[as |-> "flag", cmd |-> "calc"],
                           [as |-> "arg", cmd |-> "calc"]>>
        /\ value_["calc.all"] = Bool(TRUE)
        /\ call[c].runner.args = <<Token.false>>

-----------------------------------------------------------------------------
\* C14. --name= (an "=" followed by nothing) gives a found flag the empty
\* string as its value: a string flag reads "" from then on, not null and
\* not its default; the flag is not left pending, and the token that
\* follows is not consumed as its value.
C14_EmptyAttachedValue ==
    /\ [][\A c \in Slots :
            (Classified(c) /\ call[c].cmd = "calc" /\ Arg(c) = Token.conf_e)
            => /\ value_' = [value_ EXCEPT !["calc.conf"] = Str(<<>>)]
               /\ value("calc.conf", value_') = Str(<<>>)
               /\ call'[c].flag = NoFlag
               /\ call'[c].pc = "loop"]_vars
    /\ [](\A c \in Slots : \A j \in 1..Len(call[c].how) :
            (/\ j > 1
             /\ call[c].args[j - 1] = Token.conf_e
             /\ call[c].how[j - 1] = [as |-> "flag", cmd |-> "calc"])
            => call[c].how[j].as = ClassOf(call[c], j))

\* C14 witness: --conf= a returned: conf, whose default is "d", read as ""
\* in calc's executable, and a was its positional argument.
C14_Witness ==
    \E c \in Slots :
        /\ call[c].args = <<Token.conf_e, Token.a>>
        /\ call[c].pc = "returned"
        /\ Flag["calc.conf"].default = Str(<<"d">>)
        /\ Len(call[c].ran) = 1
        /\ call[c].ran[1].seen["calc.conf"] = Str(<<>>)
        /\ call[c].ran[1].args = <<Token.a>>

-----------------------------------------------------------------------------
RECURSIVE NumsIn(_)
\* The values an argument list over ArrayTokens gives calc's num, in input
\* order, reading the list as its spellings: --num=1, -m2, and --num or -m
\* followed by its value.
NumsIn(args) ==
    IF args = <<>>
    THEN <<>>
    ELSE IF Head(args) = Token.num_1 THEN <<Num(1)>> \o NumsIn(Tail(args))
    ELSE IF Head(args) = Token.m2 THEN <<Num(2)>> \o NumsIn(Tail(args))
    ELSE IF Head(args) \in {Token.m, Token.num} /\ Len(args) >= 2
    THEN <<parseInt(args[2])>> \o NumsIn(Tail(Tail(args)))
    ELSE NumsIn(Tail(args))

\* C15. After a parse without error that read every token (it returned
\* values), an array flag that occurred k >= 1 times on its command holds
\* exactly its k converted values in input order, whichever of the long,
\* short and attached spellings were used: no element of its default and
\* no value of an earlier parse is among them. With k = 0 it reads as its
\* default (null without one). The command's executable reads the same.
C15_ArrayInInputOrder ==
    \A c \in Slots :
        (call[c].pc = "returned" /\ "values" \in DOMAIN call[c].result)
        => /\ value_["calc.num"] =
                IF NumsIn(call[c].args) = <<>>
                THEN Null
                ELSE Arr(NumsIn(call[c].args))
           /\ value("calc.num", value_) =
                IF NumsIn(call[c].args) = <<>>
                THEN Arr(<<Num(7)>>)
                ELSE Arr(NumsIn(call[c].args))
           /\ call[c].ran[1].seen["calc.num"] = value("calc.num", value_)

\* C15 witness: the first invocation left num holding [1, 2] (--num=1 then
\* -m2); the second, given -m 3 --num=1, returned with num holding [3, 1].
C15_Witness ==
    \E c \in Slots :
        /\ call[c].n = 2
        /\ call[c].before["calc.num"] = Arr(<<Num(1), Num(2)>>)
        /\ call[c].args = <<Token.m, Token.n3, Token.num_1>>
        /\ call[c].pc = "returned"
        /\ value("calc.num", value_) = Arr(<<Num(3), Num(1)>>)

-----------------------------------------------------------------------------
IntTypes == {"int", "int[]", "uint", "uint[]"}

\* Whether number v is one an int (uint) flag may hold: a safe integer,
\* and not negative for uint.
InRange(f, v) ==
    /\ isSafeInteger(v)
    /\ Flag[f].type \in {"uint", "uint[]"} => ~isNegative(v)

\* C16. As stated: a uint flag rejects every value text that converts to a
\* negative, non-finite or non-safe-integer number and an int flag every
\* one that converts to a non-finite or non-safe-integer number, with or
\* without an allow-list or a verify hook, so that no such flag ever holds
\* such a value. The flag lim, configured with a hook, comes to hold -1.
C16_IntegerRangeEnforced ==
    \A f \in FlagIds :
        (Flag[f].type \in IntTypes /\ value_[f] # Null)
        => IF isArray(f)
           THEN \A k \in 1..Len(value_[f].a) : InRange(f, value_[f].a[k])
           ELSE InRange(f, value_[f])

\* Whether the whole text is an integer literal: an optional sign, then
\* digits and nothing else.
IsIntegerLiteral(s) ==
    LET u == IF s # <<>> /\ s[1] \in {"-", "+"} THEN Tail(s) ELSE s
    IN  u # <<>> /\ \A k \in 1..Len(u) : IsDigit(u[k])

\* C17. As stated: an int or uint flag accepts a value text only if the
\* whole text is an integer literal; 12abc and 3.7 are rejected with a flag
\* error. Stated here of the flags without a hook, port (-p) and num (-m),
\* and of the tokens -pTEXT and -mTEXT: none is consumed without a throw
\* unless TEXT is an integer literal. -p12abc is, port holding 12.
C17_WholeTextInteger ==
    \A c \in Slots : \A j \in 1..Len(call[c].how) :
        (/\ call[c].how[j].as = "flag"
         /\ Len(call[c].args[j]) > 2
         /\ SubSeq(call[c].args[j], 1, 2) \in {Token.p, Token.m})
        => IsIntegerLiteral(Substring(call[c].args[j], 2))


-----------------------------------------------------------------------------
(* C18: errors of flag.parse are wrapped, errors of executables are not.   *)

\* The flag a token hands a text to: the pending flag, else the flag its
\* first name finds in the current command's registry.
ParsedFlag(L, arg) ==
    IF L.flag # NoFlag THEN L.flag
    ELSE IF StartsWith(arg, <<"-", "-">>)
    THEN find(L.cmd,
              IF IndexOf(arg, "=") < 0 THEN Substring(arg, 2)
              ELSE Substring2(arg, 2, IndexOf(arg, "=")),
              FALSE)
    ELSE IF StartsWith(arg, <<"-">>) /\ Len(arg) > 1
    THEN find(L.cmd, Substring2(arg, 1, 2), TRUE)
    ELSE NoFlag

\* Whether the token hands that flag a text: it is the value of a pending
\* flag, or "=" attaches one, or it follows the short name of a flag that is
\* not boolean.
HandsText(L, arg) ==
    \/ L.flag # NoFlag
    \/ /\ arg # <<"-">>
       /\ ParsedFlag(L, arg) \in FlagIds
       /\ IF StartsWith(arg, <<"-", "-">>)
          THEN IndexOf(arg, "=") >= 0
          ELSE Len(arg) > 2 /\ (arg[3] = "=" \/ ~isBool(ParsedFlag(L, arg)))

\* The text handed over.
ParsedText(L, arg) ==
    IF L.flag # NoFlag THEN arg
    ELSE IF StartsWith(arg, <<"-", "-">>) THEN Substring(arg, IndexOf(arg, "=") + 1)
    ELSE IF arg[3] = "=" THEN Substring(arg, 3)
    ELSE Substring(arg, 2)

\* What converting and validating the text throws, "" when nothing.
Original(L, arg) ==
    verify(ParsedFlag(L, arg), Convert(ParsedFlag(L, arg), ParsedText(L, arg))).message

\* C18: a token that hands a declared flag a text makes the invocation fail
\* exactly when converting and validating that text throws (the hook's
\* asynchronous rejection included), and it then fails with a flag error
\* (ParseCommandError) whose cause is what was thrown; and when an
\* executable is invoked that throws, the invocation fails with what the
\* executable threw, which is no flag error and no command error, and this is
\* the only way an invocation fails once dispatch has begun.
C18_ParseErrorsWrappedRunErrorsNot ==
    /\ [][\A c \in Slots :
            (/\ InLoop(c)
             /\ ~Truthy(helpValue(call[c]))
             /\ HandsText(call[c], Arg(c))
             /\ ParsedFlag(call[c], Arg(c)) \in FlagIds)
            => /\ (Original(call[c], Arg(c)) # "") <=> (call'[c].pc = "thrown")
               /\ call'[c].pc = "thrown"
                  => /\ call'[c].error.by = "throwFlag"
                     /\ call'[c].error.message = "invalid argument"
                     /\ call'[c].error.cause = Original(call[c], Arg(c))]_vars
    /\ [][\A c \in Slots :
            call[c].pc \in {"runAll", "runLast"}
            => /\ (call'[c].pc = "thrown")
                  <=> /\ Len(call'[c].ran) = Len(call[c].ran) + 1
                      /\ throws[call'[c].ran[Len(call'[c].ran)].cmd]
               /\ call'[c].pc = "thrown"
                  => /\ call'[c].error.by = "run"
                     /\ call'[c].error.message = "thrown by run"
                     /\ call'[c].error.cause = ""]_vars

\* C18 witness: "-o" then "b" was read, the hook of mode was invoked with b
\* and rejected it, and the caller holds a flag error whose cause is the
\* hook's error.
C18_Witness ==
    \E c \in Slots :
        /\ call[c].pc = "thrown"
        /\ call[c].args = <<Token.o, Token.b>>
        /\ call[c].error.by = "throwFlag"
        /\ call[c].error.cause = "rejected by hook"
        /\ call[c].hooks = <<[flag |-> "calc.mode", val |-> Str(Token.b)]>>

-----------------------------------------------------------------------------
(* C19: flag errors and command errors come before any executable.         *)

\* C19: an invocation that failed with a flag error or a command error has
\* invoked no executable, of the root or of any subcommand, in any mode, and
\* holds no result.
C19_ErrorsBeforeDispatch ==
    \A c \in Slots :
        (/\ call[c].pc = "thrown"
         /\ call[c].error.by \in {"throwFlag", "throwCommand"})
        => /\ call[c].ran = <<>>
           /\ call[c].result = NoResult

\* C19 witness: in mode all, on the root calc, which has an executable, the
\* flag mode was given a value and then the word b, which names no child,
\* failed the invocation with a command error.
C19_Witness ==
    \E c \in Slots :
        /\ call[c].pc = "thrown"
        /\ call[c].error.by = "throwCommand"
        /\ call[c].mode = "all"
        /\ run[call[c].runners[1].cmd]
        /\ call[c].args = <<Token.mode_a, Token.b>>
        /\ call[c].given["calc.mode"] = <<Str(Token.a)>>
        /\ call[c].ran = <<>>

-----------------------------------------------------------------------------
(* C20: the allow-list is checked before the hook.                         *)

\* Whether the candidate v equals an entry of the allow-list of flag f.
Listed(f, v) ==
    /\ Flag[f].values # Null
    /\ \E k \in 1..Len(Flag[f].values.a) : Flag[f].values.a[k] = v

\* The candidate a token hands its flag: the text converted.
Candidate(L, arg) == Convert(ParsedFlag(L, arg), ParsedText(L, arg))

-----------------------------------------------------------------------------
(* C21: the remark on FlagOptions.values.                                  *)

\* C21: when a token hands a candidate to a flag that has both an allow-list
\* and a hook, the hook is invoked exactly when the candidate equals no entry
\* of the allow-list, and a candidate that equals an entry is valid, the hook
\* not invoked: the invocation does not fail on it.
C21_HookOnlyOnMismatch ==
    [][\A c \in Slots :
        (/\ InLoop(c)
         /\ ~Truthy(helpValue(call[c]))
         /\ HandsText(call[c], Arg(c))
         /\ ParsedFlag(call[c], Arg(c)) \in FlagIds
         /\ Flag[ParsedFlag(call[c], Arg(c))].values # Null
         /\ Flag[ParsedFlag(call[c], Arg(c))].hook # "none")
        => LET f == ParsedFlag(call[c], Arg(c))
               v == Candidate(call[c], Arg(c))
           IN  IF Listed(f, v)
               THEN /\ call'[c].hooks = call[c].hooks
                    /\ call'[c].pc # "thrown"
               ELSE call'[c].hooks = Append(call[c].hooks, [flag |-> f, val |-> v])]_vars

-----------------------------------------------------------------------------
(* C22: what Command.add keeps.                                            *)

-----------------------------------------------------------------------------
(* C23: what Flags.add keeps.                                              *)

\* C23: after any sequence of Flags.add calls on a registry, every long
\* entry is under the long name of its flag and every short entry under the
\* non-empty short name of its flag (so no two registered flags share
\* either), and every flag of a short entry is registered under its long
\* name; an add of a flag whose long name is registered, or whose non-empty
\* short name is in use, throws and leaves both maps as they were, and every
\* other add registers the flag under its long name and, if it has one, its
\* short name.
C23_FlagsAddKeepsRegistry ==
    /\ [](\A c \in Commands :
            /\ \A n \in DOMAIN long_[c] : Flag[long_[c][n]].name = n
            /\ \A n \in DOMAIN short_[c] :
                    /\ n # <<>>
                    /\ Flag[short_[c][n]].short = n
                    /\ Flag[short_[c][n]].name \in DOMAIN long_[c]
                    /\ long_[c][Flag[short_[c][n]].name] = short_[c][n])
    /\ [][built'.op = "flags.add"
            => LET c == built'.target
                   f == built'.flag
               IN  IF \/ Flag[f].name \in DOMAIN long_[c]
                      \/ Flag[f].short # <<>> /\ Flag[f].short \in DOMAIN short_[c]
                   THEN /\ built'.error # ""
                        /\ long_' = long_
                        /\ short_' = short_
                   ELSE /\ built'.error = ""
                        /\ long_'[c][Flag[f].name] = f
                        /\ Flag[f].short # <<>> => short_'[c][Flag[f].short] = f
                        /\ Flag[f].short = <<>> => short_' = short_]_vars

\* C23 witness: the registry holds count (-c) and the two flags without a
\* short name, and was then handed conf of calc, whose long name is free but
\* whose short name c is count's: the add threw and conf is under neither
\* name.
C23_Witness ==
    /\ built = [op |-> "flags.add", target |-> "job", flag |-> "calc.conf",
                error |-> "unable to redefine shorthand"]
    /\ DOMAIN long_["job"] = {Flag["job.count"].name, Flag["twin.raw"].name}
    /\ short_["job"] = (<<"c">> :> "job.count")

-----------------------------------------------------------------------------
(* C24, C25: the constructors.                                             *)

\* C24: the construction of a flag throws when its long name is empty or
\* contains "=", or when its short name is longer than one character or is
\* one of = - ' and the double quote; the construction of a command throws
\* when its name starts with "-".
C24_InvalidNamesRejected ==
    /\ built.op = "Flag"
       => ((\/ built.name = <<>>
            \/ \E k \in 1..Len(built.name) : built.name[k] = "="
            \/ Len(built.short) > 1
            \/ built.short \in {<<"=">>, <<"-">>, <<"'">>, <<"\"">>})
           => built.error # "")
    /\ built.op = "Command"
       => ((Len(built.name) > 0 /\ built.name[1] = "-") => built.error # "")

\* C25: a command constructed with both run and prepare has as its
\* executable what prepare returned when that is not undefined, and the
\* supplied run when prepare returned undefined.
C25_PrepareOverridesRun ==
    (/\ built.op = "Command"
     /\ built.error = ""
     /\ built.given # "undefined"
     /\ built.prepare # "none")
    => built.run = IF built.prepare = "undefined" THEN built.given
                   ELSE built.prepare

-----------------------------------------------------------------------------
(* C26: the value texts of a boolean flag.                                 *)

\* C26: a token that attaches a value text to a boolean flag never fails the
\* invocation, and leaves the flag false when the text is false, FALSE,
\* False or 0 and true for every other text.
C26_BooleanTexts ==
    [][\A c \in Slots :
        (/\ InLoop(c)
         /\ ~Truthy(helpValue(call[c]))
         /\ call[c].flag = NoFlag
         /\ HandsText(call[c], Arg(c))
         /\ ParsedFlag(call[c], Arg(c)) \in FlagIds
         /\ isBool(ParsedFlag(call[c], Arg(c))))
        => /\ call'[c].pc # "thrown"
           /\ value_'[ParsedFlag(call[c], Arg(c))] =
                Bool(ParsedText(call[c], Arg(c)) \notin
                        {<<"f", "a", "l", "s", "e">>, <<"F", "A", "L", "S", "E">>,
                         <<"F", "a", "l", "s", "e">>, <<"0">>})]_vars

\* C26 witness: --all=no and -b=0 were read and the invocation returned:
\* all is true, brief is false.
C26_Witness ==
    \E c \in Slots :
        /\ call[c].pc = "returned"
        /\ call[c].args = <<Token.all_no, Token.b_0>>
        /\ value_["calc.all"] = Bool(TRUE)
        /\ value_["calc.brief"] = Bool(FALSE)

-----------------------------------------------------------------------------
(* C27, C28: words, children and positional arguments.                     *)

\* C27: the current command changes only on a token read while its
\* positional list is empty; once the list is not empty no token changes the
\* current command or starts a new Runner, and a word read then, with no flag
\* pending, is appended to the list even when it is the name of a child.
C27_NoDescentAfterPositional ==
    [][\A c \in Slots :
        (InLoop(c) /\ strs(call[c]) # <<>>)
        => /\ call'[c].cmd = call[c].cmd
           /\ call'[c].runner.cmd = call[c].runner.cmd
           /\ Len(call'[c].runners) = Len(call[c].runners)
           /\ (/\ ~Truthy(helpValue(call[c]))
               /\ call[c].flag = NoFlag
               /\ ~StartsWith(Arg(c), <<"-">>))
              => /\ call'[c].pc = "loop"
                 /\ strs(call'[c]) = Append(strs(call[c]), Arg(c))]_vars

\* C27 witness: app was given the word a and then run, the name of its
\* child: the invocation returned with app still current and both words as
\* its positional arguments.
C27_Witness ==
    \E c \in Slots :
        /\ call[c].pc = "returned"
        /\ call[c].args = <<Token.a, Token.run>>
        /\ call[c].cmd = "app"
        /\ strs(call[c]) = <<Token.a, Token.run>>
        /\ Len(call[c].ran) = 1
        /\ call[c].ran[1].cmd = "app"
        /\ call[c].ran[1].args = <<Token.a, Token.run>>

\* C28: a word that names no child, read while the current command has
\* children and no positional argument, fails the invocation with a command
\* error when allowUnknowCommand is false and becomes the first positional
\* argument of the current command when it is true; and whenever an
\* invocation has failed with a command error, the command it failed on has
\* children and no positional argument.
C28_UnknownWord ==
    /\ [][\A c \in Slots :
            (/\ InLoop(c)
             /\ ~Truthy(helpValue(call[c]))
             /\ call[c].flag = NoFlag
             /\ ~StartsWith(Arg(c), <<"-">>)
             /\ DOMAIN children[call[c].cmd] # {}
             /\ strs(call[c]) = <<>>
             /\ Arg(c) \notin DOMAIN children[call[c].cmd])
            => IF call[c].allowUnknowCommand
               THEN /\ call'[c].pc = "loop"
                    /\ call'[c].cmd = call[c].cmd
                    /\ strs(call'[c]) = <<Arg(c)>>
               ELSE /\ call'[c].pc = "thrown"
                    /\ call'[c].error.by = "throwCommand"
                    /\ call'[c].error.cmd = call[c].cmd
                    /\ call'[c].error.arg = Arg(c)]_vars
    /\ [](\A c \in Slots :
            (call[c].pc = "thrown" /\ call[c].error.by = "throwCommand")
            => /\ DOMAIN children[call[c].error.cmd] # {}
               /\ call[c].cmd = call[c].error.cmd
               /\ strs(call[c]) = <<>>)

\* C28 witness: with allowUnknowCommand false, app was given run and then
\* the word a, which is no child of run (run has the child job): the
\* invocation failed with a command error on run.
C28_Witness ==
    \E c \in Slots :
        /\ call[c].pc = "thrown"
        /\ ~call[c].allowUnknowCommand
        /\ call[c].args = <<Token.run, Token.a>>
        /\ call[c].error.by = "throwCommand"
        /\ call[c].error.cmd = "run"
        /\ call[c].error.arg = Token.a

-----------------------------------------------------------------------------
(* C29: the token after a flag that awaits its value.                      *)

\* C29: while a flag awaits its value, the token read is handed whole to
\* that flag as its text, whatever it looks like: the current command, its
\* positional list, the Runners and help stay as they are; and either the
\* flag rejects the text and the invocation fails with the flag error
\* "invalid argument", or the flag holds the text converted, the pending
\* slot is cleared and the loop is at the following token.
C29_PendingTakesAnyToken ==
    [][\A c \in Slots :
        (InLoop(c) /\ call[c].flag # NoFlag)
        => LET f == call[c].flag
           IN  /\ ~isBool(f)
               /\ call'[c].cmd = call[c].cmd
               /\ call'[c].runner = call[c].runner
               /\ call'[c].runners = call[c].runners
               /\ call'[c].help = call[c].help
               /\ IF call'[c].pc = "thrown"
                  THEN /\ call'[c].error.by = "throwFlag"
                       /\ call'[c].error.message = "invalid argument"
                       /\ call'[c].error.arg = Arg(c)
                       /\ value_' = value_
                  ELSE /\ call'[c].pc = "loop"
                       /\ call'[c].flag = NoFlag
                       /\ call'[c].i = call[c].i + 1
                       /\ call'[c].given[f] =
                            Append(call[c].given[f], Convert(f, Arg(c)))
                       /\ value_'[f] =
                            IF isArray(f)
                            THEN Arr(Append(IF value_[f] = Null THEN <<>>
                                            ELSE value_[f].a,
                                            Convert(f, Arg(c))))
                            ELSE Convert(f, Arg(c))]_vars

\* C29 witness: --name was followed by --help and then by run, the name of
\* a child: name holds "--help", no help was returned, and run was then
\* read as the child.
C29_Witness ==
    \E c \in Slots :
        /\ call[c].pc = "returned"
        /\ call[c].args = <<Token.name, Token.help, Token.run>>
        /\ call[c].given["app.name"] = <<Str(Token.help)>>
        /\ call[c].result # [help |-> TRUE]
        /\ call[c].cmd = "run"

-----------------------------------------------------------------------------
(* C30: nothing is interpreted once help is set.                           *)

\* C30: the token that sets help does not fail the invocation, leaves the
\* current command as it is and, being a shorthand chain, changes only flags
\* named by the characters before its h; and from a state where help is set
\* the one step there is returns the help result, with the current command,
\* every flag value and the positional arguments as they were, no
\* executable invoked.
C30_HelpStopsInterpretation ==
    /\ [][\A c \in Slots :
            (/\ InLoop(c)
             /\ ~Truthy(helpValue(call[c]))
             /\ Truthy(helpValue(call'[c])))
            => /\ call'[c].pc = "loop"
               /\ call'[c].cmd = call[c].cmd
               /\ call'[c].runner = call[c].runner
               /\ \A f \in FlagIds :
                    value_'[f] # value_[f]
                    => /\ ~StartsWith(Arg(c), <<"-", "-">>)
                       /\ \E k \in 2..Len(Arg(c)) :
                            /\ <<Arg(c)[k]>> = Flag[f].short
                            /\ \E j \in (k + 1)..Len(Arg(c)) : Arg(c)[j] = "h"]_vars
    /\ [][\A c \in Slots :
            (call[c].pc = "loop" /\ Truthy(helpValue(call[c])))
            => /\ call'[c] = [call[c] EXCEPT !.pc = "returned",
                                             !.result = [help |-> TRUE]]
               /\ call[c].ran = <<>>
               /\ value_' = value_]_vars

\* C30 witness: calc was given -ahz, then the unknown -z, then fail, the
\* name of its child: all is set, z was not looked up, and the help result
\* was returned at the second token with calc still current.
C30_Witness ==
    \E c \in Slots :
        /\ call[c].pc = "returned"
        /\ call[c].args = <<Token.ahz, Token.z, Token.fail>>
        /\ call[c].result = [help |-> TRUE]
        /\ call[c].i = 2
        /\ call[c].cmd = "calc"
        /\ value_["calc.all"] = Bool(TRUE)

-----------------------------------------------------------------------------
\* C31 as stated: whenever a token of shorthand syntax holds, after one or
\* more characters that each name a boolean flag of the current command or
\* the help flag, a character other than "=" that names no flag, the
\* invocation throws the flag error for that character, whatever
\* allowUnknowFlag is.
C31_UnknownInChainAlwaysAborts ==
    [][\A c \in Slots : \A k \in 3..4 :
        (/\ Classified(c)
         /\ StartsWith(Arg(c), <<"-">>) /\ ~StartsWith(Arg(c), <<"-", "-">>)
         /\ k <= Len(Arg(c))
         /\ \A j \in 2..(k - 1) :
                /\ lookup(call[c], <<Arg(c)[j]>>, TRUE) # NoFlag
                /\ isBool(lookup(call[c], <<Arg(c)[j]>>, TRUE))
         /\ Arg(c)[k] # "="
         /\ lookup(call[c], <<Arg(c)[k]>>, TRUE) = NoFlag)
        => /\ call'[c].pc = "thrown"
           /\ call'[c].error.by = "throwFlag"]_vars

\* C31, amended: whenever a token of shorthand syntax holds, after one or
\* more characters that each name a boolean flag of the current command
\* (none of them the engine's help flag), a character other than "=" that
\* names no flag, the invocation throws the flag error "Unknow shorthand
\* flag" for that character and the whole token, whatever allowUnknowFlag
\* is: the token is not recorded as a positional argument and the current
\* command stays.
C31_UnknownInChainAborts ==
    [][\A c \in Slots : \A k \in 3..4 :
        (/\ Classified(c)
         /\ StartsWith(Arg(c), <<"-">>) /\ ~StartsWith(Arg(c), <<"-", "-">>)
         /\ k <= Len(Arg(c))
         /\ \A j \in 2..(k - 1) :
                /\ lookup(call[c], <<Arg(c)[j]>>, TRUE) \notin {NoFlag, HelpFlag}
                /\ isBool(lookup(call[c], <<Arg(c)[j]>>, TRUE))
         /\ Arg(c)[k] # "="
         /\ lookup(call[c], <<Arg(c)[k]>>, TRUE) = NoFlag)
        => /\ call'[c].pc = "thrown"
           /\ call'[c].error =
                [by |-> "throwFlag", cmd |-> call[c].cmd,
                 message |-> "Unknow shorthand flag",
                 name |-> <<Arg(c)[k]>>, arg |-> Arg(c), cause |-> "",
                 mean |-> Undefined]
           /\ call'[c].runner = call[c].runner
           /\ call'[c].runners = call[c].runners
           /\ call'[c].cmd = call[c].cmd
           /\ call'[c].ran = <<>>]_vars

\* C31 witness: with allowUnknowFlag set, calc was given -abz: all and brief
\* were set, then the flag error for z was thrown, and no positional
\* argument was recorded.
C31_Witness ==
    \E c \in Slots :
        /\ call[c].args = <<Token.abz>>
        /\ call[c].allowUnknowFlag
        /\ call[c].pc = "thrown"
        /\ call[c].error.message = "Unknow shorthand flag"
        /\ call[c].error.name = <<"z">>
        /\ call[c].error.arg = Token.abz
        /\ call[c].runner.args = <<>>
        /\ value_["calc.all"] = Bool(TRUE)
        /\ value_["calc.brief"] = Bool(TRUE)

-----------------------------------------------------------------------------
\* C32. An invocation resets the registries of the commands it makes
\* current and no other: entering it sets the flags of the root to null and
\* leaves every other flag; the step that makes a child current sets the
\* flags of that child to null and leaves every other flag; no other step
\* sets a flag to null; and a flag of a command that the invocation has not
\* made current holds the value it held when the invocation was entered.
C32_ResetsCurrentOnly ==
    /\ [][\A c \in Slots :
            (call[c].pc # "loop" /\ call'[c].pc = "loop")
            => value_' = [f \in FlagIds |->
                            IF Flag[f].cmd = call'[c].cmd THEN Null ELSE value_[f]]]_vars
    /\ [][\A c \in Slots :
            call[c].pc = "loop"
            => IF call'[c].cmd # call[c].cmd
               THEN value_' = [f \in FlagIds |->
                                IF Flag[f].cmd = call'[c].cmd THEN Null ELSE value_[f]]
               ELSE \A f \in FlagIds : value_'[f] # value_[f] => value_'[f] # Null]_vars
    /\ [](\A c \in Slots : \A f \in FlagIds :
            (/\ call[c].pc # "idle"
             /\ Flag[f].cmd # call[c].cmd
             /\ \A j \in 1..Len(call[c].how) : Flag[f].cmd # call[c].how[j].cmd)
            => value_[f] = call[c].before[f])

\* C32 witness: a first invocation made run current and set tag; the second
\* one, given "-" alone, returned with only app made current: tag of run
\* holds what the first invocation left.
C32_Witness ==
    \E c \in Slots :
        /\ call[c].n = 2
        /\ call[c].pc = "returned"
        /\ call[c].args = <<Token.dash>>
        /\ call[c].cmd = "app"
        /\ call[c].before["run.tag"] = Arr(<<Str(<<"a">>)>>)
        /\ value_["run.tag"] = Arr(<<Str(<<"a">>)>>)

-----------------------------------------------------------------------------
\* C33. In mode all the executables run one after the other from the root
\* to the innermost command: the executables invoked so far are, in order,
\* those of the first Runners that have one, each passed the arguments of
\* its Runner, the userdata of the invocation and its own command; when
\* the executable of a Runner is invoked, every earlier Runner with an
\* executable holds its result already and no later Runner has been
\* invoked; and once an executable has thrown, it is the last one invoked
\* and the invocation has thrown what it threw.
C33_AllModeInOrder ==
    /\ [](\A c \in Slots :
            LET L == call[c]
                P == [j \in 1..Len(L.runners) |-> L.runners[j].cmd]
                R == RanOf(P, Len(P))
            IN  L.mode = "all"
                => /\ Len(L.ran) <= Len(R)
                   /\ \A j \in 1..Len(L.ran) :
                        /\ L.ran[j].cmd = R[j]
                        /\ L.ran[j].userdata = L.userdata
                        /\ \E i \in 1..Len(L.runners) :
                              /\ L.runners[i].cmd = R[j]
                              /\ L.ran[j].args = L.runners[i].args
                        /\ throws[R[j]]
                           => /\ j = Len(L.ran)
                              /\ L.pc = "thrown"
                              /\ L.error.by = "run"
                              /\ L.error.cmd = R[j]
                   /\ L.pc = "returned" /\ "values" \in DOMAIN L.result
                      => RanCmds(L) = R)
    /\ [][\A c \in Slots :
            (call[c].mode = "all" /\ Len(call'[c].ran) > Len(call[c].ran))
            => /\ Len(call'[c].ran) = Len(call[c].ran) + 1
               /\ call[c].pc = "runAll"
               /\ call'[c].ran[Len(call'[c].ran)].cmd = call[c].runners[call[c].k].cmd
               /\ \A j \in 1..Len(call[c].runners) :
                    IF j < call[c].k
                    THEN call[c].runners[j].result = ResultOf(call[c].runners[j].cmd)
                    ELSE call[c].runners[j].result = Undefined]_vars

\* C33 witness: in mode all, calc was given fail, app, run: the executable
\* of calc ran, then that of fail, which threw; those of app and run, both
\* on the matched path, were not invoked.
C33_Witness ==
    \E c \in Slots :
        /\ call[c].mode = "all"
        /\ call[c].args = <<Token.fail, Token.app, Token.run>>
        /\ [j \in 1..Len(call[c].runners) |-> call[c].runners[j].cmd]
              = <<"calc", "fail", "app", "run">>
        /\ call[c].pc = "thrown"
        /\ call[c].error.by = "run"
        /\ RanCmds(call[c]) = <<"calc", "fail">>
        /\ call[c].ran[1].userdata = call[c].ran[2].userdata

-----------------------------------------------------------------------------
\* C34. Of two invocations in progress at the same time, one that shares
\* its tree with no other (the other is on the tree of another root, or
\* was never entered) hands its executables the flags of the matched path
\* as its own arguments gave them, else their defaults, else null.
C34_OwnTreeNoInterference ==
    \A c \in DOMAIN call : \A j \in 1..Len(call[c].ran) : \A f \in FlagIds :
        (/\ OnPath(call[c], f)
         /\ \A d \in DOMAIN call \ {c} :
                \/ call[d].pc = "idle"
                \/ pathOf(call[d].cmd)[1] # pathOf(call[c].cmd)[1])
        => call[c].ran[j].seen[f] = Expected(call[c], f)

\* C34 witness: two invocations on the tree of app, one given --name a and
\* the other --name -, both parsed without error; the executable of the
\* first read name as "-", the value the other was given, not "a".
C34_Witness ==
    /\ DOMAIN call = {1, 2}
    /\ call[1].args = <<Token.name, Token.a>>
    /\ call[2].args = <<Token.name, Token.dash>>
    /\ call[2].cmd = "app"
    /\ call[1].pc = "returned"
    /\ call[1].given["app.name"] = <<Str(<<"a">>)>>
    /\ call[2].given["app.name"] = <<Str(<<"-">>)>>
    /\ Len(call[1].ran) = 1
    /\ call[1].ran[1].seen["app.name"] = Str(<<"-">>)

-----------------------------------------------------------------------------
\* C35. After any sequence of add calls, following the parent links from
\* any command comes to a command without a parent: within as many steps as
\* there are commands, so that no command is its own parent or ancestor
\* and the loop of use() ends.
C35_ParentLinksEnd ==
    \A c \in Commands :
        LET RECURSIVE Up(_, _)
            Up(x, n) == IF x = NoCmd THEN TRUE
                        ELSE IF n = 0 THEN FALSE
                        ELSE Up(parent[x], n - 1)
        IN  Up(c, Cardinality(Commands))

-----------------------------------------------------------------------------
\* C36 as stated: Flags.guess gives a registered long name, and Command.guess
\* the name of an immediate child, that is within the threshold (2 when
\* none is given) of the input and as close to it as any, and null exactly
\* when no such name is within the threshold; the errors for an unknown
\* long flag and for an unknown command carry such a name as suggestion,
\* and none when the threshold is below 1.
C36_GuessClosestAlways ==
    LET RECURSIVE Distance(_, _)
        Distance(a, b) ==
            IF a = <<>> THEN Len(b)
            ELSE IF b = <<>> THEN Len(a)
            ELSE LET x == Distance(Tail(a), Tail(b)) + (IF Head(a) = Head(b) THEN 0 ELSE 1)
                     y == Distance(Tail(a), b) + 1
                     z == Distance(a, Tail(b)) + 1
                 IN  IF x <= y /\ x <= z THEN x ELSE IF y <= z THEN y ELSE z
        Threshold(d) == IF d.t = "number" THEN d.half ELSE 4
        LongNames(c) == {Flag[f].name : f \in {g \in FlagIds : \E n \in DOMAIN long_[c] : long_[c][n] = g}}
        ChildNames(c) == {CmdName[x] : x \in {y \in Commands : parent[y] = c}}
        Closest(input, names, d, got) ==
            IF \A n \in names : 2 * Distance(input, n) > Threshold(d)
            THEN got = <<>>
            ELSE /\ Len(got) = 1
                 /\ got[1] \in names
                 /\ 2 * Distance(input, got[1]) <= Threshold(d)
                 /\ \A n \in names : Distance(input, got[1]) <= Distance(input, n)
    IN  /\ built.op = "flags.guess"
           => Closest(built.name, LongNames(built.target), built.levenshteinDistance,
                      IF built.found = NoFlag THEN <<>>
                      ELSE <<Flag[built.found].name>>)
        /\ built.op = "guess"
           => Closest(built.name, ChildNames(built.target), built.levenshteinDistance,
                      IF built.found = NoCmd THEN <<>>
                      ELSE <<CmdName[built.found]>>)
        /\ \A c \in Slots :
            /\ (call[c].pc = "thrown" /\ call[c].error.message = "Unknow flag")
               => /\ Closest(call[c].error.name, LongNames(call[c].error.cmd),
                             call[c].levenshteinDistance,
                             IF call[c].error.mean = Undefined THEN <<>>
                             ELSE <<call[c].error.mean.s>>)
                  /\ Threshold(call[c].levenshteinDistance) < 2
                     => ~Truthy(call[c].error.mean)
            /\ (call[c].pc = "thrown" /\ call[c].error.by = "throwCommand")
               => /\ Closest(call[c].error.name, ChildNames(call[c].error.cmd),
                             call[c].levenshteinDistance,
                             IF call[c].error.mean = Undefined THEN <<>>
                             ELSE <<call[c].error.mean.s>>)
                  /\ Threshold(call[c].levenshteinDistance) < 2
                     => ~Truthy(call[c].error.mean)

\* C36, amended: as above for a threshold above 0; with a threshold of 0 or
\* less Flags.guess gives null, also for an input that is a registered long
\* name, whereas Command.guess gives the child the input names exactly when
\* the threshold is 0.
C36_GuessClosest ==
    LET RECURSIVE Distance(_, _)
        Distance(a, b) ==
            IF a = <<>> THEN Len(b)
            ELSE IF b = <<>> THEN Len(a)
            ELSE LET x == Distance(Tail(a), Tail(b)) + (IF Head(a) = Head(b) THEN 0 ELSE 1)
                     y == Distance(Tail(a), b) + 1
                     z == Distance(a, Tail(b)) + 1
                 IN  IF x <= y /\ x <= z THEN x ELSE IF y <= z THEN y ELSE z
        Threshold(d) == IF d.t = "number" THEN d.half ELSE 4
        LongNames(c) == {Flag[f].name : f \in {g \in FlagIds : \E n \in DOMAIN long_[c] : long_[c][n] = g}}
        ChildNames(c) == {CmdName[x] : x \in {y \in Commands : parent[y] = c}}
        Closest(input, names, d, got) ==
            IF \A n \in names : 2 * Distance(input, n) > Threshold(d)
            THEN got = <<>>
            ELSE /\ Len(got) = 1
                 /\ got[1] \in names
                 /\ 2 * Distance(input, got[1]) <= Threshold(d)
                 /\ \A n \in names : Distance(input, got[1]) <= Distance(input, n)
    IN  /\ built.op = "flags.guess"
           => IF Threshold(built.levenshteinDistance) <= 0
              THEN built.found = NoFlag
              ELSE
              Closest(built.name, LongNames(built.target), built.levenshteinDistance,
                      IF built.found = NoFlag THEN <<>>
                      ELSE <<Flag[built.found].name>>)
        /\ built.op = "guess"
           => Closest(built.name, ChildNames(built.target), built.levenshteinDistance,
                      IF built.found = NoCmd THEN <<>>
                      ELSE <<CmdName[built.found]>>)
        /\ \A c \in Slots :
            /\ (call[c].pc = "thrown" /\ call[c].error.message = "Unknow flag")
               => /\ Closest(call[c].error.name, LongNames(call[c].error.cmd),
                             call[c].levenshteinDistance,
                             IF call[c].error.mean = Undefined THEN <<>>
                             ELSE <<call[c].error.mean.s>>)
                  /\ Threshold(call[c].levenshteinDistance) < 2
                     => ~Truthy(call[c].error.mean)
            /\ (call[c].pc = "thrown" /\ call[c].error.by = "throwCommand")
               => /\ Closest(call[c].error.name, ChildNames(call[c].error.cmd),
                             call[c].levenshteinDistance,
                             IF call[c].error.mean = Undefined THEN <<>>
                             ELSE <<call[c].error.mean.s>>)
                  /\ Threshold(call[c].levenshteinDistance) < 2
                     => ~Truthy(call[c].error.mean)

\* C36 witness: with no threshold given, calc was given --pont: conf is
\* within the threshold, at distance 2, port is at distance 1, and the error
\* suggests port.
C36_Witness ==
    \E c \in Slots :
        /\ call[c].args = <<Token.pont>>
        /\ call[c].levenshteinDistance = Undefined
        /\ call[c].pc = "thrown"
        /\ call[c].error.message = "Unknow flag"
        /\ getLevenshteinDistance(<<"p", "o", "n", "t">>, Flag["calc.conf"].name) = 2
        /\ call[c].error.mean = Str(Flag["calc.port"].name)

-----------------------------------------------------------------------------
\* C37. The guess of a string flag over its allow-list gives null when the
\* threshold (2 when none is given) is 0 or less or no entry is within it,
\* and otherwise an entry within the threshold that is as close to the
\* input as any, the first such entry of the list.
C37_GuessValueFirstOfTies ==
    LET RECURSIVE Distance(_, _)
        Distance(a, b) ==
            IF a = <<>> THEN Len(b)
            ELSE IF b = <<>> THEN Len(a)
            ELSE LET x == Distance(Tail(a), Tail(b)) + (IF Head(a) = Head(b) THEN 0 ELSE 1)
                     y == Distance(Tail(a), b) + 1
                     z == Distance(a, Tail(b)) + 1
                 IN  IF x <= y /\ x <= z THEN x ELSE IF y <= z THEN y ELSE z
        threshold == IF built.levenshteinDistance.t = "number"
                     THEN built.levenshteinDistance.half
                     ELSE 4
        values == Flag[built.flag].values.a
    IN  (/\ built.op = "flag.guess"
         /\ Flag[built.flag].type = "string"
         /\ Flag[built.flag].values # Null)
        => IF \/ threshold <= 0
              \/ \A k \in 1..Len(values) : 2 * Distance(built.input, values[k].s) > threshold
           THEN built.found = Null
           ELSE \E k \in 1..Len(values) :
                    /\ built.found = values[k]
                    /\ 2 * Distance(built.input, values[k].s) <= threshold
                    /\ \A j \in 1..Len(values) :
                         Distance(built.input, values[k].s) <= Distance(built.input, values[j].s)
                    /\ \A j \in 1..(k - 1) :
                         Distance(built.input, values[k].s) < Distance(built.input, values[j].s)

-----------------------------------------------------------------------------
\* C38. A token that hands a declared flag a text which cannot be converted
\* (the text of an integer flag is no number), which the allow-list does not
\* hold, which the hook rejects or for which parse throws, leaves the
\* current value of that flag as it was: a scalar flag keeps what it held
\* and an array flag gains no element.
C38_FailedOccurrenceKeepsValue ==
    [][\A c \in Slots :
        (/\ InLoop(c)
         /\ ~Truthy(helpValue(call[c]))
         /\ HandsText(call[c], Arg(c))
         /\ ParsedFlag(call[c], Arg(c)) \in FlagIds
         /\ LET f == ParsedFlag(call[c], Arg(c))
                v == Convert(f, ParsedText(call[c], Arg(c)))
            IN  \/ v = NaN
                \/ ~verifyValues(f, v)
                \/ hook(f, v) # ""
                \/ Original(call[c], Arg(c)) # "")
        => value_'[ParsedFlag(call[c], Arg(c))] = value_[ParsedFlag(call[c], Arg(c))]]_vars

-----------------------------------------------------------------------------
\* C39. In modes all and runner every Runner but the last of the list has an
\* empty argument list, in every state of the invocation and in the result
\* returned; the last one is the Runner of the current command and holds the
\* positional arguments read so far; and in mode all every executable but
\* that of the innermost command was passed an empty list.
C39_OuterRunnersEmpty ==
    \A c \in Slots :
        (call[c].pc # "idle" /\ tracked(call[c]))
        => /\ \A j \in 1..(Len(call[c].runners) - 1) :
                  call[c].runners[j].args = <<>>
           /\ call[c].runners[Len(call[c].runners)].cmd = call[c].cmd
           /\ call[c].runners[Len(call[c].runners)].args
                  = PositionalsOf(call[c], call[c].cmd)
           /\ (call[c].pc = "returned" /\ "runners" \in DOMAIN call[c].result)
              => \A j \in 1..(Len(call[c].result.runners) - 1) :
                     call[c].result.runners[j].args = <<>>
           /\ \A k \in DOMAIN call[c].ran :
                  call[c].ran[k].cmd # call[c].cmd => call[c].ran[k].args = <<>>

\* C39 witness: mode runner given run, job and a returned three Runners, of
\* app, run and job, the first two without arguments and the last with a.
C39_Witness ==
    \E c \in Slots :
        /\ call[c].pc = "returned"
        /\ call[c].mode = "runner"
        /\ call[c].args = <<Token.run, Token.job, Token.a>>
        /\ Len(call[c].result.runners) = 3
        /\ call[c].result.runners[1] = [cmd |-> "app", args |-> <<>>,
                                        result |-> Undefined]
        /\ call[c].result.runners[2].args = <<>>
        /\ call[c].result.runners[3].cmd = "job"
        /\ call[c].result.runners[3].args = <<Token.a>>

-----------------------------------------------------------------------------
\* C40. Every token an invocation reads without failing is consumed in
\* exactly one of four ways, and the step to the next token does what that
\* way says and nothing of the others: as the value of the flag that was
\* pending (command and positional list unchanged, no flag pending
\* afterwards), as a flag token (in flag syntax, command and positional list
\* unchanged), as the name of a child (that child becomes current with an
\* empty list) or as a positional argument (appended to the list of the
\* current command, no flag value changed). An invocation that returned
\* without help has consumed each of its tokens once, and the arguments of
\* its innermost Runner, which its executable was passed, are the tokens
\* consumed as positional arguments of that command, in input order.
C40_EveryTokenOnce ==
    /\ [][\A c \in Slots :
            (InLoop(c) /\ ~Truthy(helpValue(call[c])) /\ call'[c].pc = "loop")
            => LET L == call[c]
                   M == call'[c]
                   asValue == /\ L.flag # NoFlag
                              /\ M.flag = NoFlag
                              /\ M.cmd = L.cmd
                              /\ strs(M) = strs(L)
                   asFlag  == /\ L.flag = NoFlag
                              /\ Arg(c) # <<"-">>
                              /\ StartsWith(Arg(c), <<"-">>)
                              /\ M.cmd = L.cmd
                              /\ strs(M) = strs(L)
                   asChild == /\ L.flag = NoFlag
                              /\ M.flag = NoFlag
                              /\ child(L.cmd, Arg(c)) # NoCmd
                              /\ M.cmd = child(L.cmd, Arg(c))
                              /\ strs(L) = <<>>
                              /\ strs(M) = <<>>
                   asArg   == /\ L.flag = NoFlag
                              /\ M.flag = NoFlag
                              /\ M.cmd = L.cmd
                              /\ strs(M) = Append(strs(L), Arg(c))
                              /\ value_' = value_
                   ways == <<asValue, asFlag, asChild, asArg>>
                   names == <<"value", "flag", "child", "arg">>
               IN  /\ M.i = L.i + 1
                   /\ M.args = L.args
                   /\ Len(M.how) = L.i
                   /\ SubSeq(M.how, 1, L.i - 1) = L.how
                   /\ M.how[L.i].cmd = L.cmd
                   /\ \E w \in 1..4 :
                          /\ ways[w]
                          /\ M.how[L.i].as = names[w]
                          /\ \A x \in (1..4) \ {w} : ~ways[x]]_vars
    /\ [](\A c \in Slots :
            (call[c].pc = "returned" /\ "help" \notin DOMAIN call[c].result)
            => /\ Len(call[c].how) = Len(call[c].args)
               /\ strs(call[c]) = PositionalsOf(call[c], call[c].cmd)
               /\ \A j \in DOMAIN call[c].how :
                      call[c].how[j].as = "arg"
                      => call[c].how[j].cmd = call[c].cmd
               /\ \A k \in DOMAIN call[c].ran :
                      call[c].ran[k].cmd = call[c].cmd
                      => call[c].ran[k].args = PositionalsOf(call[c], call[c].cmd)
               /\ "runners" \in DOMAIN call[c].result
                  => call[c].result.runners[Len(call[c].result.runners)].args
                         = PositionalsOf(call[c], call[c].cmd))

\* C40 witness: app given --name, run and a returned: --name was a flag
\* token, run the value of name and not the child of that name, a the one
\* positional argument, which the executable of app was passed.
C40_Witness ==
    \E c \in Slots :
        /\ call[c].pc = "returned"
        /\ call[c].args = <<Token.name, Token.run, Token.a>>
        /\ call[c].how = <<[as |-> "flag", cmd |-> "app"],
                           [as |-> "value", cmd |-> "app"],
                           [as |-> "arg", cmd |-> "app"]>>
        /\ value_["app.name"] = Str(Token.run)
        /\ call[c].cmd = "app"
        /\ Len(call[c].ran) = 1
        /\ call[c].ran[1].args = <<Token.a>>

=============================================================================
